---- MODULE Spec2Model ----
(***************************************************************************)
(* TrekkingTime Pro: the route analytics and estimation engine             *)
(* (services/geoUtils.ts, services/calcService.ts) and the reactive shell  *)
(* that owns its inputs (App.tsx).                                         *)
(*                                                                         *)
(* Numbers.  JavaScript numbers are modelled as extended rationals         *)
(* <<n, d>> in lowest terms with d >= 0: d > 0 is the finite value n/d,    *)
(* <<1,0>> is Infinity, <<-1,0>> is -Infinity and <<0,0>> is NaN.  The     *)
(* arithmetic is exact; the places where the result of the code depends on *)
(* IEEE rounding are marked where they occur.                              *)
(*                                                                         *)
(* Geometry.  Model tracks lie on one meridian, where the haversine        *)
(* distance is R * |dLat|; a latitude is given as its arc length from the  *)
(* equator in decimetres, an elevation in decimetres.                      *)
(***************************************************************************)
EXTENDS Integers, Sequences, FiniteSets, TLC

----------------------------------------------------------------------------
(* Extended rational arithmetic (the model of JavaScript's number).        *)

Abs(n) == IF n < 0 THEN -n ELSE n

Sign(n) == IF n > 0 THEN 1 ELSE IF n < 0 THEN -1 ELSE 0

RECURSIVE GCD(_, _)
GCD(a, b) == IF b = 0 THEN a ELSE GCD(b, a % b)

RNorm(n, d) ==
    IF d = 0 THEN <<Sign(n), 0>>
    ELSE LET g == GCD(Abs(n), Abs(d))
             s == IF d < 0 THEN -1 ELSE 1
         IN  <<s * (n \div g), s * (d \div g)>>

Num(n) == <<n, 1>>
Zero == <<0, 1>>
NaN == <<0, 0>>
Infinity == <<1, 0>>
NegInfinity == <<-1, 0>>

IsNaN(a) == a = NaN
IsFinite(a) == a[2] > 0
IsInteger(a) == a[2] = 1

RNeg(a) == <<-a[1], a[2]>>
RAbs(a) == <<Abs(a[1]), a[2]>>

RAdd(a, b) ==
    IF IsFinite(a) /\ IsFinite(b)
    THEN LET g == GCD(a[2], b[2])
         IN  RNorm(a[1] * (b[2] \div g) + b[1] * (a[2] \div g), (a[2] \div g) * b[2])
    ELSE IF IsFinite(b) THEN a
    ELSE IF IsFinite(a) THEN b
    ELSE IF a = b THEN a ELSE NaN

RSub(a, b) == RAdd(a, RNeg(b))

\* cross-reduced before multiplying, to keep the products small
RMul(a, b) ==
    IF IsFinite(a) /\ IsFinite(b)
    THEN LET g1 == GCD(Abs(a[1]), b[2])
             g2 == GCD(Abs(b[1]), a[2])
         IN  IF a[1] = 0 \/ b[1] = 0 THEN Zero
             ELSE <<(a[1] \div g1) * (b[1] \div g2), (a[2] \div g2) * (b[2] \div g1)>>
    ELSE RNorm(a[1] * b[1], 0)

RInv(a) ==
    IF a[1] = 0 THEN (IF a[2] = 0 THEN NaN ELSE Infinity)   \* 1/0 = Infinity
    ELSE IF a[2] = 0 THEN Zero                              \* 1/Infinity = 0
    ELSE IF a[1] < 0 THEN <<-a[2], -a[1]>> ELSE <<a[2], a[1]>>

\* a / b as IEEE 754 defines it: x/0 is +-Infinity, 0/0 and Inf/Inf are NaN
RDiv(a, b) ==
    IF b = Zero THEN RNorm(a[1], 0)
    ELSE IF ~IsFinite(a) /\ ~IsFinite(b) THEN NaN
    ELSE RMul(a, RInv(b))

\* comparisons; every comparison with NaN is false
RLt(a, b) ==
    IF IsNaN(a) \/ IsNaN(b) THEN FALSE
    ELSE IF ~IsFinite(a) /\ ~IsFinite(b) THEN a[1] < b[1]
    ELSE a[1] * b[2] < b[1] * a[2]
RGt(a, b) == RLt(b, a)
RLe(a, b) == ~IsNaN(a) /\ ~IsNaN(b) /\ ~RLt(b, a)
RGe(a, b) == RLe(b, a)

RMax(a, b) == IF IsNaN(a) \/ IsNaN(b) THEN NaN ELSE IF RLt(a, b) THEN b ELSE a
RMin(a, b) == IF IsNaN(a) \/ IsNaN(b) THEN NaN ELSE IF RLt(b, a) THEN b ELSE a

\* Math.floor
MathFloor(a) == IF IsFinite(a) THEN Num(a[1] \div a[2]) ELSE a

\* Math.ceil
MathCeil(a) == IF IsFinite(a) THEN Num(-((-a[1]) \div a[2])) ELSE a

\* Math.round: the nearest integer, a tie towards +Infinity
MathRound(a) == IF IsFinite(a) THEN Num((2 * a[1] + a[2]) \div (2 * a[2])) ELSE a

RECURSIVE Pow10(_)
Pow10(k) == IF k = 0 THEN 1 ELSE 10 * Pow10(k - 1)

\* long division: k more decimal digits of r/d appended to acc; <<digits, rest>>
RECURSIVE LongDiv(_, _, _, _)
LongDiv(r, d, k, acc) ==
    IF k = 0 THEN <<acc, r>>
    ELSE LongDiv((r * 10) % d, d, k - 1, acc * 10 + (r * 10) \div d)

\* parseFloat(x.toFixed(k)): the nearest multiple of 10^-k, a tie away from
\* zero (for a tie the code's choice rests on the binary representation of
\* x; the model takes the decimal value)
ToFixed(a, k) ==
    IF ~IsFinite(a) THEN a
    ELSE LET n == Abs(a[1])
             qr == LongDiv(n % a[2], a[2], k, n \div a[2])
             m == IF 2 * qr[2] >= a[2] THEN qr[1] + 1 ELSE qr[1]
         IN  RNorm(Sign(a[1]) * m, Pow10(k))

----------------------------------------------------------------------------
(* GeoMath and TrackReducer (services/geoUtils.ts).                        *)

\* a variant that keeps the sign of dLat
calculateDistance_signed(lat1, lon1, lat2, lon2) == RNorm(lat2 - lat1, 10000)

\* The haversine distance in km of two points of one meridian: R * |dLat|,
\* the latitudes being arc lengths in decimetres (1 dm = 1/10000 km).
calculateDistance(lat1, lon1, lat2, lon2) == RNorm(Abs(lat2 - lat1), 10000)

\* slopeDist.<bucket> += dist
AddTo(slopeDist, bucket, dist) == [slopeDist EXCEPT ![bucket] = RAdd(@, dist)]

\* a variant whose bands exclude their limits
SlopeBucket_strict(slopeVal) ==
    IF RLe(RAbs(slopeVal), Num(2)) THEN "flat"
    ELSE IF RGt(slopeVal, Num(2))
         THEN IF RLe(slopeVal, Num(8)) THEN "mildUp"
              ELSE IF RLe(slopeVal, Num(15)) THEN "moderateUp"
              ELSE "steepUp"
         ELSE IF RGe(slopeVal, Num(-8)) THEN "mildDown"
              ELSE IF RGe(slopeVal, Num(-15)) THEN "moderateDown"
              ELSE "steepDown"

\* the bucket a slope value (percent) falls into
SlopeBucket(slopeVal) ==
    IF RLt(RAbs(slopeVal), Num(2)) THEN "flat"
    ELSE IF RGe(slopeVal, Num(2))
         THEN IF RLt(slopeVal, Num(8)) THEN "mildUp"
              ELSE IF RLt(slopeVal, Num(15)) THEN "moderateUp"
              ELSE "steepUp"
         ELSE IF RGt(slopeVal, Num(-8)) THEN "mildDown"
              ELSE IF RGt(slopeVal, Num(-15)) THEN "moderateDown"
              ELSE "steepDown"

Buckets == {"steepDown", "moderateDown", "mildDown", "flat", "mildUp", "moderateUp", "steepUp"}

\* the loop of calculateSlopeBreakdown from index i on (1-based: i is curr)
RECURSIVE SlopeLoop(_, _, _)
SlopeLoop(points, i, slopeDist) ==
    IF i > Len(points) THEN slopeDist
    ELSE LET prev == points[i - 1]
             curr == points[i]
             dist == RSub(curr.distFromStart, prev.distFromStart)
             slopeVal == IF "slope" \in DOMAIN curr THEN curr.slope
                         ELSE RMul(RDiv(RSub(curr.ele, prev.ele), RMul(dist, Num(1000))), Num(100))
         IN  IF RGt(dist, Zero)
             THEN SlopeLoop(points, i + 1, AddTo(slopeDist, SlopeBucket(slopeVal), dist))
             ELSE SlopeLoop(points, i + 1, slopeDist)

\* a variant whose loop starts one segment late
calculateSlopeBreakdown_late(points, totalDistance) ==
    LET slopeDist == SlopeLoop(points, 3, [b \in Buckets |-> Zero])
    IN  [b \in Buckets |-> ToFixed(slopeDist[b], 2)]

calculateSlopeBreakdown(points, totalDistance) ==
    LET slopeDist == SlopeLoop(points, 2, [b \in Buckets |-> Zero])
    IN  [b \in Buckets |-> ToFixed(slopeDist[b], 2)]

\* a variant that lets a delta of exactly 0.5 m count
AboveNoiseFloor_ge(eleDiff) == RGe(RAbs(eleDiff), <<1, 2>>)

\* Math.abs(eleDiff) > 0.5: the delta counts towards gain or loss
AboveNoiseFloor(eleDiff) == RGt(RAbs(eleDiff), <<1, 2>>)

\* One iteration of parseGPX's loop: trkpt pt is read with the accumulators a.
ParseStep(a, pt) ==
    LET lat == pt.lat
        lon == pt.lon
        ele == RNorm(pt.ele, 10)                      \* metres
        first == Len(a.points) = 0                    \* i = 0
        prev == a.points[Len(a.points)]
        distFromPrev == IF first THEN Zero ELSE calculateDistance(prev.lat, prev.lon, lat, lon)
        totalDistance == RAdd(a.totalDistance, distFromPrev)
        eleDiff == IF first THEN Zero ELSE RSub(ele, prev.ele)
        counts == AboveNoiseFloor(eleDiff)
        sloped == RGt(distFromPrev, <<1, 1000>>)      \* distFromPrev > 0.001
        slopeVal == IF sloped
                    THEN RMul(RDiv(eleDiff, RMul(distFromPrev, Num(1000))), Num(100))
                    ELSE Zero
    IN  [totalDistance |-> totalDistance,
         elevationGain |-> IF counts /\ RGt(eleDiff, Zero)
                           THEN RAdd(a.elevationGain, eleDiff) ELSE a.elevationGain,
         elevationLoss |-> IF counts /\ ~RGt(eleDiff, Zero)
                           THEN RAdd(a.elevationLoss, RAbs(eleDiff)) ELSE a.elevationLoss,
         maxElevation |-> IF RGt(ele, a.maxElevation) THEN ele ELSE a.maxElevation,
         minElevation |-> IF RLt(ele, a.minElevation) THEN ele ELSE a.minElevation,
         totalSlopeAccumulator |-> IF sloped THEN RAdd(a.totalSlopeAccumulator, RAbs(slopeVal))
                                   ELSE a.totalSlopeAccumulator,
         slopeCount |-> IF sloped THEN a.slopeCount + 1 ELSE a.slopeCount,
         points |-> Append(a.points,
                           [lat |-> lat, lon |-> lon, ele |-> ele,
                            distFromStart |-> ToFixed(totalDistance, 3),
                            slope |-> slopeVal])]

RECURSIVE ParseLoop(_, _, _)
ParseLoop(trkpts, i, a) ==
    IF i > Len(trkpts) THEN a ELSE ParseLoop(trkpts, i + 1, ParseStep(a, trkpts[i]))

ParseStart ==
    [totalDistance |-> Zero, elevationGain |-> Zero, elevationLoss |-> Zero,
     maxElevation |-> NegInfinity, minElevation |-> Infinity,
     totalSlopeAccumulator |-> Zero, slopeCount |-> 0, points |-> <<>>]

\* the RouteStats parseGPX returns for the accumulators a its loop ends with
Returned(a) ==
    [totalDistance |-> ToFixed(a.totalDistance, 2),
     elevationGain |-> MathRound(a.elevationGain),
     elevationLoss |-> MathRound(a.elevationLoss),
     maxElevation |-> MathRound(a.maxElevation),
     minElevation |-> MathRound(a.minElevation),
     avgSlope |-> IF a.slopeCount > 0
                  THEN RDiv(a.totalSlopeAccumulator, Num(a.slopeCount))
                  ELSE Zero,
     points |-> a.points,
     slopeBreakdown |-> calculateSlopeBreakdown(a.points, a.totalDistance)]

\* the RouteStats parseGPX returns after its loop over the trkpt elements
RouteStatsOf(trkpts) == Returned(ParseLoop(trkpts, 1, ParseStart))

\* a variant that does not throw for a document without trkpt
parseGPX_unguarded(trkpts) == [ok |-> TRUE, stats |-> RouteStatsOf(trkpts)]

\* parseGPX on the ordered trkpt elements of the document: an error (the
\* throw) for none, the RouteStats otherwise.
parseGPX(trkpts) ==
    IF Len(trkpts) = 0
    THEN [ok |-> FALSE, error |-> "No track points (trkpt) found in the GPX file."]
    ELSE [ok |-> TRUE, stats |-> RouteStatsOf(trkpts)]

----------------------------------------------------------------------------
(* EstimationEngine (services/calcService.ts).                             *)

FitnessLevel == {"SEDENTARY", "BEGINNER", "AVERAGE", "ATHLETIC", "ENDURANCE", "ELITE",
                 "SUPER_HUMAN"}
PaceType == {"PHOTOGRAPHY", "RELAXED", "NORDIC", "STEADY", "POWER", "FAST", "TRAIL_RUN",
             "SKY_RUN"}
PackWeight == {"LIGHT", "MEDIUM", "HEAVY"}

\* a variant in which a tier is slower than the one below it
getFitnessBaseSpeed_dip(level) ==
    CASE level = "SEDENTARY" -> <<5, 2>>
      [] level = "BEGINNER" -> <<16, 5>>
      [] level = "AVERAGE" -> Num(4)
      [] level = "ATHLETIC" -> Num(5)
      [] level = "ENDURANCE" -> <<9, 2>>
      [] level = "ELITE" -> Num(6)
      [] level = "SUPER_HUMAN" -> Num(7)
      [] OTHER -> Num(4)

getFitnessBaseSpeed(level) ==
    CASE level = "SEDENTARY" -> <<5, 2>>
      [] level = "BEGINNER" -> <<16, 5>>
      [] level = "AVERAGE" -> Num(4)
      [] level = "ATHLETIC" -> Num(5)
      [] level = "ENDURANCE" -> <<11, 2>>
      [] level = "ELITE" -> Num(6)
      [] level = "SUPER_HUMAN" -> Num(7)
      [] OTHER -> Num(4)

getPaceMultiplier(type) ==
    CASE type = "PHOTOGRAPHY" -> <<3, 5>>
      [] type = "RELAXED" -> <<4, 5>>
      [] type = "NORDIC" -> <<11, 10>>
      [] type = "STEADY" -> Num(1)
      [] type = "POWER" -> <<13, 10>>
      [] type = "FAST" -> <<7, 5>>
      [] type = "TRAIL_RUN" -> Num(2)
      [] type = "SKY_RUN" -> <<12, 5>>
      [] OTHER -> Num(1)

getCalculatedSpeed(ctx) ==
    LET speed0 == RMul(getFitnessBaseSpeed(ctx.fitness), getPaceMultiplier(ctx.pace))
        speed1 == IF ctx.weight = "MEDIUM" THEN RMul(speed0, <<19, 20>>) ELSE speed0
    IN  IF ctx.weight = "HEAVY" THEN RMul(speed1, <<17, 20>>) ELSE speed1

\* a variant that gives runners the breaks of walkers
applyBreaks_walking(minutes, ctx) ==
    LET hours == RDiv(minutes, Num(60))
        breakMinutes == RMul(MathFloor(hours), Num(10))
    IN  IF ~ctx.includeBreaks THEN minutes ELSE RAdd(minutes, breakMinutes)

applyBreaks(minutes, ctx) ==
    LET isRunning == ctx.pace = "TRAIL_RUN" \/ ctx.pace = "SKY_RUN"
        hours == RDiv(minutes, Num(60))
        breakMinutes == RMul(MathFloor(hours), Num(10))
    IN  IF ~ctx.includeBreaks \/ isRunning THEN minutes ELSE RAdd(minutes, breakMinutes)

\* a variant with one climb rate for every fitness level
calculateNaismith_oneRate(ctx) ==
    LET speed == getCalculatedSpeed(ctx)
        timeDist == RDiv(ctx.stats.totalDistance, speed)
        timeVert == RDiv(ctx.stats.elevationGain, Num(600))
        totalMinutes == RMul(RAdd(timeDist, timeVert), Num(60))
    IN  [method |-> "Naismith's Rule",
         timeMinutes |-> MathRound(applyBreaks(totalMinutes, ctx))]

\* a variant that forgets Math.round
calculateNaismith_unrounded(ctx) ==
    LET speed == getCalculatedSpeed(ctx)
        timeDist == RDiv(ctx.stats.totalDistance, speed)
        climbFactor == IF ctx.fitness = "ELITE" \/ ctx.fitness = "SUPER_HUMAN" THEN 800 ELSE 600
        timeVert == RDiv(ctx.stats.elevationGain, Num(climbFactor))
        totalMinutes == RMul(RAdd(timeDist, timeVert), Num(60))
    IN  [method |-> "Naismith's Rule", timeMinutes |-> applyBreaks(totalMinutes, ctx)]

\* totalMinutes of calculateNaismith, the moving time
NaismithMinutes(ctx) ==
    LET speed == getCalculatedSpeed(ctx)
        timeDist == RDiv(ctx.stats.totalDistance, speed)
        climbFactor == IF ctx.fitness = "ELITE" \/ ctx.fitness = "SUPER_HUMAN" THEN 800 ELSE 600
        timeVert == RDiv(ctx.stats.elevationGain, Num(climbFactor))
    IN  RMul(RAdd(timeDist, timeVert), Num(60))

calculateNaismith(ctx) ==
    [method |-> "Naismith's Rule",
     timeMinutes |-> MathRound(applyBreaks(NaismithMinutes(ctx), ctx))]

\* e^(-f/10000) for 0 <= f < 10000, in units of 1/100000: the Taylor series,
\* term i being the one before times f / (10000 * i)
RECURSIVE ExpSeries(_, _, _)
ExpSeries(f, i, term) ==
    IF term = 0 \/ i > 16 THEN 0
    ELSE term - ExpSeries(f, i + 1, (term * f) \div (10000 * (i + 1)))

\* e^(-k) for a whole k, in units of 1/10000
ExpWhole(k) ==
    IF k > 9 THEN 0 ELSE <<10000, 3679, 1353, 498, 183, 67, 25, 9, 3, 1>>[k + 1]

\* Math.exp(x) for x <= 0, to five decimals (the argument is cut to four)
MathExp(x) ==
    LET X == MathFloor(RMul(RAbs(x), Num(10000)))[1]
    IN  RNorm((ExpSeries(X % 10000, 0, 100000) * ExpWhole(X \div 10000)) \div 10000, 100000)

\* the model's precision for the quotient dist / velocity: 1/1000000 hour
Hours6(x) == ToFixed(x, 6)

\* V = 6 * e^(-3.5 * |m + 0.05|)
ToblerFormula(slope) ==
    RMul(Num(6), MathExp(RMul(<<-7, 2>>, RAbs(RAdd(slope, <<1, 20>>)))))

\* a variant without the safety clamp
ToblerVelocity_unclamped(slope) == ToblerFormula(slope)

\* the velocity used for a segment of the given slope: never under 0.5 km/h
ToblerVelocity(slope) ==
    LET velocity == ToblerFormula(slope)
    IN  IF RLt(velocity, <<1, 2>>) THEN <<1, 2>> ELSE velocity

\* the slope (rise over run) of the segment from p1 to p2, of length dist km
ToblerSlope(p1, p2, dist) == RDiv(RSub(p2.ele, p1.ele), RMul(dist, Num(1000)))

\* what one iteration of calculateTobler's loop adds to totalHours
ToblerSegmentHours(p1, p2) ==
    LET dist == calculateDistance(p1.lat, p1.lon, p2.lat, p2.lon)
    IN  IF dist = Zero THEN Zero
        ELSE Hours6(RDiv(dist, ToblerVelocity(ToblerSlope(p1, p2, dist))))

RECURSIVE ToblerLoop(_, _, _)
ToblerLoop(points, i, totalHours) ==
    IF i > Len(points) THEN totalHours
    ELSE ToblerLoop(points, i + 1, RAdd(totalHours, ToblerSegmentHours(points[i - 1], points[i])))

\* totalHours * 60 of calculateTobler
ToblerMinutes(ctx) ==
    LET userSpeed == getCalculatedSpeed(ctx)
        scaleFactor == RDiv(Num(6), userSpeed)
        totalHours == RMul(ToblerLoop(ctx.stats.points, 2, Zero), scaleFactor)
    IN  RMul(totalHours, Num(60))

calculateTobler(ctx) ==
    [method |-> "Tobler's Function",
     timeMinutes |-> MathRound(applyBreaks(ToblerMinutes(ctx), ctx))]

\* totalHours * 60 of calculateMunter
MunterMinutes(ctx) ==
    LET speed == getCalculatedSpeed(ctx)
        distUnits == ctx.stats.totalDistance
        vertUnits == RDiv(ctx.stats.elevationGain, Num(100))
        baseHours == RDiv(RAdd(distUnits, vertUnits), speed)
        totalHours == IF ctx.weight = "HEAVY"
                      THEN RAdd(baseHours, RDiv(ctx.stats.elevationLoss, Num(1000)))
                      ELSE baseHours
    IN  RMul(totalHours, Num(60))

calculateMunter(ctx) ==
    [method |-> "Munter Method",
     timeMinutes |-> MathRound(applyBreaks(MunterMinutes(ctx), ctx))]

\* totalHours * 60 of calculateSwiss
SwissMinutes(ctx) ==
    LET speedFactor == RDiv(getCalculatedSpeed(ctx), Num(4))
        t_horiz_hours == RDiv(ctx.stats.totalDistance, RMul(Num(4), speedFactor))
        t_up_hours == RDiv(ctx.stats.elevationGain, RMul(Num(400), speedFactor))
        t_down_hours == RDiv(ctx.stats.elevationLoss, RMul(Num(800), speedFactor))
        t_vert_hours == RAdd(t_up_hours, t_down_hours)
        maxVal == RMax(t_horiz_hours, t_vert_hours)
        minVal == RMin(t_horiz_hours, t_vert_hours)
        totalHours == RAdd(maxVal, RMul(minVal, <<1, 2>>))
    IN  RMul(totalHours, Num(60))

calculateSwiss(ctx) ==
    [method |-> "Swiss (DIN 33466)",
     timeMinutes |-> MathRound(applyBreaks(SwissMinutes(ctx), ctx))]

\* totalHours * 60 of calculatePetzoldt
PetzoldtMinutes(ctx) ==
    LET speed == getCalculatedSpeed(ctx)
        energyKmFromDist == ctx.stats.totalDistance
        energyKmFromGain == RDiv(ctx.stats.elevationGain, <<762, 5>>)    \* 152.4
        totalEnergyKm == RAdd(energyKmFromDist, energyKmFromGain)
        totalHours == RDiv(totalEnergyKm, speed)
    IN  RMul(totalHours, Num(60))

calculatePetzoldt(ctx) ==
    [method |-> "Petzoldt Energy",
     timeMinutes |-> MathRound(applyBreaks(PetzoldtMinutes(ctx), ctx))]

\* the moving minutes of the five estimators, in the order of Estimators
MovingMinutes(ctx) ==
    << NaismithMinutes(ctx), ToblerMinutes(ctx), MunterMinutes(ctx),
       SwissMinutes(ctx), PetzoldtMinutes(ctx) >>

\* the five estimates in the order the calculation effect takes them
Estimators(ctx) ==
    << calculateNaismith(ctx), calculateTobler(ctx), calculateMunter(ctx),
       calculateSwiss(ctx), calculatePetzoldt(ctx) >>

----------------------------------------------------------------------------
(* Aggregator (services/calcService.ts).                                   *)

\* values[i] of a JavaScript array (0-based i): undefined, which is NaN in
\* arithmetic, outside the array
At(values, i) == IF i + 1 \in 1..Len(values) THEN values[i + 1] ELSE NaN

RECURSIVE Insert(_, _)
Insert(sorted, v) ==
    IF Len(sorted) = 0 THEN <<v>>
    ELSE IF RLt(v, sorted[1]) THEN <<v>> \o sorted
    ELSE <<sorted[1]>> \o Insert(Tail(sorted), v)

RECURSIVE SortAscending(_)
SortAscending(values) ==
    IF Len(values) = 0 THEN <<>>
    ELSE Insert(SortAscending(SubSeq(values, 1, Len(values) - 1)), values[Len(values)])

\* a variant that forgets to sort
SortedMinutes_unsorted(estimates) == [i \in DOMAIN estimates |-> estimates[i].timeMinutes]

\* estimates.map(e => e.timeMinutes).sort((a, b) => a - b)
SortedMinutes(estimates) ==
    SortAscending([i \in DOMAIN estimates |-> estimates[i].timeMinutes])

\* a variant that sorts the array it was given
EstimationsAfter_sorted(estimates) ==
    [i \in DOMAIN estimates |->
        [estimates[i] EXCEPT !.timeMinutes = SortedMinutes(estimates)[i]]]

\* the array passed in, after the call: map builds the array that is sorted
EstimationsAfter(estimates) == estimates

RECURSIVE Reduce(_)
Reduce(values) == IF Len(values) = 0 THEN Zero ELSE RAdd(values[1], Reduce(Tail(values)))

\* diffPercent > 0.10 as the code evaluates it, in floating point: when the
\* exact quotient is 1/10 the computed one lies above the double 0.10 or not
\* according to the rounding errors of mean and of the quotient (above for
\* [2,2,2,2,3], not for [98,100,100,100,152]); fpAbove is that outcome
ExceedsTenPercent(diffPercent, fpAbove) ==
    IF diffPercent = <<1, 10>> THEN fpAbove ELSE RGt(diffPercent, <<1, 10>>)

\* calculateSmartAggregate after its guard
AggregateOf(estimates, fpAbove) ==
    LET values == SortedMinutes(estimates)
        sum == Reduce(values)
        mean == RDiv(sum, Num(Len(values)))
        mid == Len(values) \div 2
        median == IF Len(values) % 2 # 0 THEN At(values, mid)
                  ELSE RDiv(RAdd(At(values, mid - 1), At(values, mid)), Num(2))
        diffPercent == RDiv(RAbs(RSub(mean, median)), median)
    IN  IF ExceedsTenPercent(diffPercent, fpAbove)
        THEN [val |-> MathRound(median), type |-> "MEDIAN",
              reason |-> <<"Average skewed by outliers (", ToFixed(RMul(diffPercent, Num(100)), 0),
                           "% var). Using Median.">>]
        ELSE [val |-> MathRound(mean), type |-> "MEAN",
              reason |-> <<"Methods align well. Using Average.">>]

\* a variant without the guard for the empty list
calculateSmartAggregate_unguarded(estimates, fpAbove) == AggregateOf(estimates, fpAbove)

calculateSmartAggregate(estimates, fpAbove) ==
    IF Len(estimates) = 0 THEN [val |-> Zero, type |-> "MEAN", reason |-> <<"No data">>]
    ELSE AggregateOf(estimates, fpAbove)

----------------------------------------------------------------------------
(* Chart series (services/geoUtils.ts, smoothGPXPoints).                   *)

\* points[i] of a JavaScript array (0-based i)
PointAt(points, i) == points[i + 1]

targetPoints == 1000

\* the slope the downsampling gives point p after prev, its predecessor in
\* the downsampled series
DownsampledSlope(prev, p) ==
    LET dist == calculateDistance(prev.lat, prev.lon, p.lat, p.lon)
        eleDiff == RSub(p.ele, prev.ele)
    IN  IF RGt(dist, <<1, 1000>>)
        THEN RMul(RDiv(eleDiff, RMul(dist, Num(1000))), Num(100))
        ELSE Zero

\* points.filter((_, i) => i % step === 0), as the indices kept (0-based)
Filtered(n, step) ==
    LET Keep(i) == i % step = 0
    IN  SelectSeq([k \in 1..n |-> k - 1], Keep)

\* a variant that carries the slope of the input over
Downsample_carried(points) ==
    LET step == RMax(Num(1), MathCeil(RDiv(Num(Len(points)), Num(targetPoints))))[1]
        kept == Filtered(Len(points), step)
    IN  [j \in 1..Len(kept) |-> PointAt(points, kept[j])]

\* the downsampled series: every step-th point, its slope computed anew
Downsample(points) ==
    LET step == RMax(Num(1), MathCeil(RDiv(Num(Len(points)), Num(targetPoints))))[1]
        kept == Filtered(Len(points), step)
    IN  [j \in 1..Len(kept) |->
            [PointAt(points, kept[j]) EXCEPT
                !.slope = IF j > 1
                          THEN DownsampledSlope(PointAt(points, kept[j - 1]),
                                                PointAt(points, kept[j]))
                          ELSE Zero]]

\* the width of the window of a level
WindowSize(level) ==
    CASE level = 1 -> 5
      [] level = 2 -> 15
      [] level = 3 -> 40
      [] level = 4 -> 80
      [] OTHER -> 3

\* values.reduce((sum, v) => sum + v, 0) of the values lo..hi: the exact sum
\* does not depend on the order, it is taken by halves
RECURSIVE SumOver(_, _, _)
SumOver(values, lo, hi) ==
    IF lo > hi THEN Zero
    ELSE IF lo = hi THEN values[lo]
    ELSE RAdd(SumOver(values, lo, (lo + hi) \div 2), SumOver(values, (lo + hi) \div 2 + 1, hi))

\* p.slope || 0
SlopeOrZero(p) == IF IsNaN(p.slope) THEN Zero ELSE p.slope

\* a variant that divides by the full width at the ends of the series too
MovingAverage_padded(downsampled, windowSize) ==
    [idx \in 1..Len(downsampled) |->
        LET half == windowSize \div 2
            start == IF idx - 1 - half > 0 THEN idx - 1 - half ELSE 0
            end == IF Len(downsampled) < idx + half THEN Len(downsampled) ELSE idx + half
            subset == SubSeq(downsampled, start + 1, end)
            avgEle == RDiv(SumOver([k \in DOMAIN subset |-> subset[k].ele], 1, Len(subset)),
                           Num(2 * half + 1))
            avgSlope == RDiv(SumOver([k \in DOMAIN subset |-> SlopeOrZero(subset[k])], 1,
                                     Len(subset)), Num(2 * half + 1))
        IN  [downsampled[idx] EXCEPT !.ele = avgEle, !.slope = avgSlope]]

\* the moving average of the downsampled series over the window of a level
MovingAverage(downsampled, windowSize) ==
    [idx \in 1..Len(downsampled) |->
        LET half == windowSize \div 2
            start == IF idx - 1 - half > 0 THEN idx - 1 - half ELSE 0
            end == IF Len(downsampled) < idx + half THEN Len(downsampled) ELSE idx + half
            subset == SubSeq(downsampled, start + 1, end)
            avgEle == RDiv(SumOver([k \in DOMAIN subset |-> subset[k].ele], 1, Len(subset)),
                           Num(Len(subset)))
            avgSlope == RDiv(SumOver([k \in DOMAIN subset |-> SlopeOrZero(subset[k])], 1,
                                     Len(subset)), Num(Len(subset)))
        IN  [downsampled[idx] EXCEPT !.ele = avgEle, !.slope = avgSlope]]

\* a variant that writes the result into the array it was given
InputAfter_inPlace(points, result) == result

\* the array passed in, after the call: filter and map build new arrays and
\* the spreads { ...p, slope } and { ...point, ele, slope } new points
InputAfter(points, result) == points

smoothGPXPoints(points, level) ==
    IF level = 0 THEN Downsample(points)
    ELSE MovingAverage(Downsample(points), WindowSize(level))

----------------------------------------------------------------------------
(* Optional values and dates.                                              *)

\* null / undefined, and a value that is there
Null == <<>>
Some(v) == <<v>>

\* A Date is its time value in minutes from 1 January 00:00 local time of a
\* leap year (a rational; NaN is the Invalid Date).
DaysInMonth == <<31, 29, 31, 30, 31, 30, 31, 31, 30, 31, 30, 31>>

RECURSIVE DaysBefore(_)
DaysBefore(month) == IF month <= 1 THEN 0 ELSE DaysBefore(month - 1) + DaysInMonth[month - 1]

\* the Date of a month, day of the month, hours and minutes; a day past the
\* end of the month runs on into the next, as Date.prototype.setDate has it
TimeValue(month, day, hours, mins) == (DaysBefore(month) + day - 1) * 1440 + hours * 60 + mins

RECURSIVE MonthOfDay(_, _)
MonthOfDay(dayOfYear, month) ==
    IF month >= 12 \/ dayOfYear < DaysBefore(month + 1) THEN month
    ELSE MonthOfDay(dayOfYear, month + 1)

\* Date.prototype.getMonth() + 1 and Date.prototype.getDate()
getMonth(t) == MonthOfDay(t \div 1440, 1)
getDate(t) == (t \div 1440) - DaysBefore(getMonth(t)) + 1

\* date.setHours(hours, mins, 0, 0)
setHours(t, hours, mins) == (t \div 1440) * 1440 + hours * 60 + mins

----------------------------------------------------------------------------
(* Difficulty, bio-metrics and daylight (services/calcService.ts).         *)

\* array.slice(from, to) for 0 <= from <= to
Slice(array, from, to) == SubSeq(array, from + 1, IF to < Len(array) THEN to ELSE Len(array))

\* strings.join(separator)
RECURSIVE Join(_, _)
Join(strings, separator) ==
    IF Len(strings) = 0 THEN ""
    ELSE IF Len(strings) = 1 THEN strings[1]
    ELSE strings[1] \o separator \o Join(Tail(strings), separator)

\* a variant that reports up to three tags
analyzeRoute_three(route) ==
    LET n == Len(route.points)
        altitude == IF RGt(route.maxElevation, Num(2500)) THEN <<"High Altitude">>
                    ELSE IF RGt(route.maxElevation, Num(1500)) THEN <<"Alpine">>
                    ELSE <<>>
        startDistIdx == (n * 15) \div 100
        startGain == RSub(PointAt(route.points, startDistIdx).ele, PointAt(route.points, 0).ele)
        steepStart == IF startDistIdx > 0 /\ n > startDistIdx
                         /\ RGt(startGain, RMul(route.elevationGain, <<1, 4>>))
                      THEN <<"Steep Start">> ELSE <<>>
        endDistIdx == (n * 85) \div 100
        endGain == RSub(PointAt(route.points, n - 1).ele, PointAt(route.points, endDistIdx).ele)
        uphillFinish == IF endDistIdx < n /\ RGt(endGain, Num(150))
                        THEN <<"Uphill Finish">> ELSE <<>>
        steepPercent == RDiv(RAdd(route.slopeBreakdown.steepUp, route.slopeBreakdown.steepDown),
                             route.totalDistance)
        steep == IF RGt(steepPercent, <<3, 10>>) THEN <<"Technical/Steep">> ELSE <<>>
        flatPercent == RDiv(route.slopeBreakdown.flat, route.totalDistance)
        flat == IF RGt(flatPercent, <<3, 5>>) THEN <<"Mostly Flat">> ELSE <<>>
        characteristics == altitude \o steepStart \o uphillFinish \o steep \o flat
    IN  IF Len(characteristics) = 0 THEN "Varied Terrain"
        ELSE Join(Slice(characteristics, 0, 3), " & ")

analyzeRoute(route) ==
    LET n == Len(route.points)
        altitude == IF RGt(route.maxElevation, Num(2500)) THEN <<"High Altitude">>
                    ELSE IF RGt(route.maxElevation, Num(1500)) THEN <<"Alpine">>
                    ELSE <<>>
        startDistIdx == (n * 15) \div 100
        startGain == RSub(PointAt(route.points, startDistIdx).ele, PointAt(route.points, 0).ele)
        steepStart == IF startDistIdx > 0 /\ n > startDistIdx
                         /\ RGt(startGain, RMul(route.elevationGain, <<1, 4>>))
                      THEN <<"Steep Start">> ELSE <<>>
        endDistIdx == (n * 85) \div 100
        endGain == RSub(PointAt(route.points, n - 1).ele, PointAt(route.points, endDistIdx).ele)
        uphillFinish == IF endDistIdx < n /\ RGt(endGain, Num(150))
                        THEN <<"Uphill Finish">> ELSE <<>>
        steepPercent == RDiv(RAdd(route.slopeBreakdown.steepUp, route.slopeBreakdown.steepDown),
                             route.totalDistance)
        steep == IF RGt(steepPercent, <<3, 10>>) THEN <<"Technical/Steep">> ELSE <<>>
        flatPercent == RDiv(route.slopeBreakdown.flat, route.totalDistance)
        flat == IF RGt(flatPercent, <<3, 5>>) THEN <<"Mostly Flat">> ELSE <<>>
        characteristics == altitude \o steepStart \o uphillFinish \o steep \o flat
    IN  IF Len(characteristics) = 0 THEN "Varied Terrain"
        ELSE Join(Slice(characteristics, 0, 2), " & ")

\* a variant whose bands exclude their lower bound
DifficultyLabel_exclusive(effortPoints) ==
    IF RLe(effortPoints, Num(5)) THEN "Very Easy"
    ELSE IF RLe(effortPoints, Num(8)) THEN "Easy"
    ELSE IF RLe(effortPoints, Num(12)) THEN "Moderate"
    ELSE IF RLe(effortPoints, Num(18)) THEN "Challenging"
    ELSE IF RLe(effortPoints, Num(25)) THEN "Hard"
    ELSE IF RLe(effortPoints, Num(35)) THEN "Demanding"
    ELSE IF RLe(effortPoints, Num(45)) THEN "Strenuous"
    ELSE "Extreme"

\* the label of an effort score (colours and description go with the label)
DifficultyLabel(effortPoints) ==
    IF RLt(effortPoints, Num(5)) THEN "Very Easy"
    ELSE IF RLt(effortPoints, Num(8)) THEN "Easy"
    ELSE IF RLt(effortPoints, Num(12)) THEN "Moderate"
    ELSE IF RLt(effortPoints, Num(18)) THEN "Challenging"
    ELSE IF RLt(effortPoints, Num(25)) THEN "Hard"
    ELSE IF RLt(effortPoints, Num(35)) THEN "Demanding"
    ELSE IF RLt(effortPoints, Num(45)) THEN "Strenuous"
    ELSE "Extreme"

calculateDifficulty(route) ==
    LET effortPoints == RAdd(route.totalDistance, RDiv(route.elevationGain, Num(100)))
    IN  [score |-> effortPoints, equivalentFlatKm |-> effortPoints,
         details |-> analyzeRoute(route), label |-> DifficultyLabel(effortPoints)]

\* if (tempC): undefined, NaN and 0 are falsy
Truthy(tempC) == tempC # Null /\ ~IsNaN(tempC[1]) /\ tempC[1] # Zero

\* tempC is Null (undefined) or Some(number)
calculateBioMetrics(ctx, durationMinutes, tempC) ==
    LET loadWeight == IF ctx.weight = "HEAVY" THEN 15 ELSE IF ctx.weight = "MEDIUM" THEN 7 ELSE 0
        totalWeight == 75 + loadWeight
        hours == RDiv(durationMinutes, Num(60))
        mets0 == IF ctx.pace = "TRAIL_RUN" THEN Num(8)
                 ELSE IF ctx.pace = "FAST" THEN Num(5) ELSE <<7, 2>>
        avgGrade == RMul(RDiv(ctx.stats.elevationGain, RMul(ctx.stats.totalDistance, Num(1000))),
                         Num(100))
        mets == RAdd(mets0, RMul(avgGrade, <<3, 10>>))
        calories == MathRound(RMul(RMul(mets, Num(totalWeight)), hours))
        heat == IF Truthy(tempC)
                THEN RAdd(IF RGt(tempC[1], Num(20)) THEN <<1, 5>> ELSE Zero,
                     RAdd(IF RGt(tempC[1], Num(28)) THEN <<3, 10>> ELSE Zero,
                          IF RGt(tempC[1], Num(35)) THEN <<1, 5>> ELSE Zero))
                ELSE Zero
        quick == IF ctx.pace = "FAST" \/ ctx.pace = "TRAIL_RUN" THEN <<1, 5>> ELSE Zero
        graded == IF RGt(avgGrade, Num(8)) THEN <<1, 10>> ELSE Zero
        waterRate == RAdd(RAdd(RAdd(<<1, 2>>, heat), quick), graded)
    IN  [calories |-> calories, water |-> ToFixed(RMul(waterRate, hours), 1)]

\* a variant that takes 20:00 for the sunset when the forecast gives none
calculateSafety_dusk(startStr, durationMinutes, sunsetStr, clock) ==
    LET start == setHours(clock, startStr.hours, startStr.mins)
        finish == RAdd(Num(start), durationMinutes)
        sunsetTime == Num(setHours(clock, 20, 0))
    IN  [finishTime |-> finish, sunsetTime |-> Some(sunsetTime),
         isNightHiking |-> RGt(finish, sunsetTime)]

\* startStr is [hours, mins] (the "HH:MM" of the time input), sunsetStr is
\* Null or Some([month, day, hours, mins]) (the ISO local time the forecast
\* gives), clock is what new Date() returns
calculateSafety(startStr, durationMinutes, sunsetStr, clock) ==
    LET start == setHours(clock, startStr.hours, startStr.mins)
        finish == RAdd(Num(start), durationMinutes)
        userDate == getDate(start)
        sunsetTime == Num(TimeValue(sunsetStr[1].month, userDate,
                                    sunsetStr[1].hours, sunsetStr[1].mins))
    IN  IF sunsetStr # Null
        THEN [finishTime |-> finish, sunsetTime |-> Some(sunsetTime),
              isNightHiking |-> RGt(finish, sunsetTime)]
        ELSE [finishTime |-> finish, sunsetTime |-> Null, isNightHiking |-> FALSE]

----------------------------------------------------------------------------
(* Inputs of the pure-function specifications.                             *)

MaxPoints == 3

\* the sequences over S of length at most n
SeqsUpTo(S, n) == UNION { [1..k -> S] : k \in 0..n }

\* Steps <<dLat, dEle>> (decimetres) from one trkpt to the next: on the spot,
\* on the spot 0.3 m up, 0.4 m on, exactly 1 m on and 0.3 m down, 2 m on and
\* 0.5 m up, 2 m back and 0.6 m down, and 1 km on at 0 %, 2 %, -8 % and 200 %
\* and at the other limits of the slope bands, -2 %, 8 %, 15 % and -15 %.
Steps == { <<0, 0>>, <<0, 3>>, <<4, 0>>, <<10, -3>>, <<20, 5>>, <<-20, -6>>,
           <<10000, 0>>, <<10000, 200>>, <<10000, -800>>, <<10000, 20000>>,
           <<10000, -200>>, <<10000, 800>>, <<10000, 1500>>, <<10000, -1500>> }

\* first trkpts <<lat, ele>>: two trailheads
Starts == { <<0, 0>>, <<500000, 16000>> }

RECURSIVE Walk(_, _, _)
Walk(pts, steps, i) ==
    IF i > Len(steps) THEN pts
    ELSE LET last == pts[Len(pts)]
         IN  Walk(Append(pts, [lat |-> last.lat + steps[i][1], lon |-> 0,
                               ele |-> last.ele + steps[i][2]]), steps, i + 1)

\* the tracks of at most maxPoints trkpts from a start by such steps
TracksOver(starts, steps, maxPoints) ==
    { Walk(<<[lat |-> s[1], lon |-> 0, ele |-> s[2]]>>, q, 1) :
        s \in starts, q \in SeqsUpTo(steps, maxPoints - 1) }

\* the steps of the tracks the estimators are run on: on the spot 0.6 m up,
\* and 1 km on at 0 %, -8 % and 200 %
EstSteps == { <<0, 6>>, <<10000, 0>>, <<10000, -800>>, <<10000, 20000>> }

\* a flat route of 10 km: two trkpts at one elevation
FlatTenKm == Walk(<<[lat |-> 0, lon |-> 0, ele |-> 0]>>, << <<100000, 0>> >>, 1)

MaxEstimates == 5

\* timeMinutes values, in families: the smallest with a 10 % tie
\* ([2,2,2,2,3]) and none at all; those of the two examples
\* [100,100,100,100,500] and [100,102,98,101,99]; and a mix of both
AggMinutes == { {0, 2, 3}, {98, 99, 100, 101, 102, 500}, {0, 3, 100, 500} }

Estimation(v) == [method |-> "Estimate", timeMinutes |-> Num(v)]

----------------------------------------------------------------------------
(* The App component (App.tsx) with the forecast service it calls.  A      *)
(* handler and the effects React runs after it are one step.               *)

VARIABLES
    \* App.tsx: the state of the App component
    stats,              \* RouteStats | null
    fitness, pace, weight, includeBreaks,
    smoothingLevel,
    selectedDate,       \* <<month, day>> of the trip date; Null is the cleared input ""
    startTime,          \* [hours, mins], the "HH:MM" of the time input
    weather,            \* WeatherData | null
    weatherLoading,
    weatherError,       \* string | null
    estimations, aggregate, difficulty, bioMetrics, safety,
    error,              \* string | null
    \* the environment of the App
    pending,            \* the fetchWeatherForecast calls not yet settled, oldest first
    latest,             \* the call issued last and how it settled (a history variable)
    now,                \* the wall clock, what new Date() returns
    events,             \* the number of user events handled so far
    \* the pure functions taken alone
    arg,        \* harness: the input of the pure function under check
    res,        \* harness: what the function returned ("none" before the call)
    pc          \* harness: "ready" before the call, "done" after, "off" in the App

appVars == <<stats, fitness, pace, weight, includeBreaks, smoothingLevel, selectedDate,
             startTime, weather, weatherLoading, weatherError, estimations, aggregate,
             difficulty, bioMetrics, safety, error, pending, latest, now, events>>

harnessVars == <<arg, res, pc>>

vars == <<appVars, harnessVars>>

\* the GPX files of the model: one without trkpt, a gentle 1 km from one
\* trailhead, a climb of 2000 m and a descent from another at 1600 m
TrackA == Walk(<<[lat |-> 0, lon |-> 0, ele |-> 0]>>, << <<10000, 200>> >>, 1)
TrackB == Walk(<<[lat |-> 500000, lon |-> 0, ele |-> 16000]>>,
               << <<10000, 20000>>, <<10000, -800>> >>, 1)
Files == { <<>>, TrackA, TrackB }

\* what the user picks in the controls of the dashboard
AppDates == { Null, <<6, 15>>, <<7, 10>> }
AppStartTimes == { [hours |-> 9, mins |-> 0], [hours |-> 20, mins |-> 0] }
AppFitness == { "AVERAGE", "ATHLETIC" }
AppPace == { "STEADY", "TRAIL_RUN" }
AppWeight == { "LIGHT", "HEAVY" }

\* the days the App is opened on, at 08:00
Clocks == { TimeValue(6, 15, 8, 0), TimeValue(7, 10, 8, 0) }

\* the user events (uploads and changes of a control) of a session
MaxEvents == 4

\* a user event is handled
UserEvent == events < MaxEvents /\ events' = events + 1

\* What fetchWeatherForecast resolves to for a call: the date asked for, and
\* a temperature and a sunset that tell the places and the days apart.
Forecast(request) ==
    [date |-> request.dateStr,
     maxTemp |-> Num(request.dateStr[2] + (IF request.lat = 0 THEN 6 ELSE 15)),
     sunset |-> [month |-> request.dateStr[1], day |-> request.dateStr[2],
                 hours |-> 21, mins |-> IF request.lat = 0 THEN 30 ELSE 10]]

\* the call the weather effect makes for a track and a trip date
Request(s, date) ==
    LET startPoint == PointAt(s.points, 0)
    IN  [lat |-> startPoint.lat, lon |-> startPoint.lon, dateStr |-> date]

\* The pure functions the steps of the App call are tabulated over the
\* arguments the App can call them with (f @@ <<>> is f, as a table).
ParsedFiles == [trkpts \in Files |-> parseGPX(trkpts)] @@ <<>>
AppStats == { parsed.stats : parsed \in { r \in { ParsedFiles[trkpts] : trkpts \in Files } : r.ok } }
AppEstimates ==
    [ctx \in [stats : AppStats, fitness : AppFitness, pace : AppPace, weight : AppWeight,
              includeBreaks : BOOLEAN] |-> Estimators(ctx)] @@ <<>>
AppWeather ==
    { Null } \cup { Some(Forecast(Request(s, date))) : s \in AppStats, date \in AppDates \ { Null } }

\* the calculation effect's body, for a track s: the part after the
\* aggregate, the part after the estimates, and the whole
CalcFinish(s, ctx, results, agg, wth, st, clock) ==
    [difficulty |-> calculateDifficulty(s),
     estimations |-> results,
     aggregate |-> agg,
     bioMetrics |-> calculateBioMetrics(ctx, agg.val,
                        IF wth = Null THEN Null ELSE Some(wth[1].maxTemp)),
     safety |-> calculateSafety(st, agg.val,
                        IF wth = Null THEN Null ELSE Some(wth[1].sunset), clock)]

CalcAggregate(s, ctx, results, wth, st, clock, fpAbove) ==
    CalcFinish(s, ctx, results, calculateSmartAggregate(results, fpAbove), wth, st, clock)

CalcResults(s, f, p, w, b, wth, st, clock, fpAbove) ==
    CalcAggregate(s, [stats |-> s, fitness |-> f, pace |-> p, weight |-> w, includeBreaks |-> b],
                  AppEstimates[[stats |-> s, fitness |-> f, pace |-> p, weight |-> w,
                                includeBreaks |-> b]],
                  wth, st, clock, fpAbove)

\* what the calculation effect can set, by what it reads
AppResults ==
    [x \in [stats : AppStats, fitness : AppFitness, pace : AppPace, weight : AppWeight,
            includeBreaks : BOOLEAN, weather : AppWeather, startTime : AppStartTimes,
            now : Clocks] |->
        { CalcResults(x.stats, x.fitness, x.pace, x.weight, x.includeBreaks, x.weather,
                      x.startTime, x.now, fpAbove) : fpAbove \in BOOLEAN }] @@ <<>>

\* a variant that reads the weather of the render before the handler
CalcEffect_stale(s, f, p, w, b, wth, st) ==
    IF s = Null
    THEN UNCHANGED <<estimations, aggregate, difficulty, bioMetrics, safety>>
    ELSE \E r \in AppResults[[stats |-> s[1], fitness |-> f, pace |-> p, weight |-> w,
                              includeBreaks |-> b, weather |-> weather, startTime |-> st,
                              now |-> now]] :
            /\ difficulty' = Some(r.difficulty)
            /\ estimations' = r.estimations
            /\ aggregate' = Some(r.aggregate)
            /\ bioMetrics' = Some(r.bioMetrics)
            /\ safety' = Some(r.safety)

\* the calculation effect, run with the state the handler leaves
CalcEffect(s, f, p, w, b, wth, st) ==
    IF s = Null
    THEN UNCHANGED <<estimations, aggregate, difficulty, bioMetrics, safety>>
    ELSE \E r \in AppResults[[stats |-> s[1], fitness |-> f, pace |-> p, weight |-> w,
                              includeBreaks |-> b, weather |-> wth, startTime |-> st,
                              now |-> now]] :
            /\ difficulty' = Some(r.difficulty)
            /\ estimations' = r.estimations
            /\ aggregate' = Some(r.aggregate)
            /\ bioMetrics' = Some(r.bioMetrics)
            /\ safety' = Some(r.safety)

\* the weather effect, run with the state the handler leaves: it calls
\* fetchWeatherForecast and returns at the await
WeatherEffect(s, date) ==
    IF s # Null /\ Len(s[1].points) > 0 /\ date # Null
    THEN LET request == Request(s[1], date)
         IN  /\ weatherLoading' = TRUE
             /\ weatherError' = Null
             /\ pending' = Append(pending, request)
             /\ latest' = [request |-> Some(request), status |-> "pending"]
    ELSE UNCHANGED <<weatherLoading, weatherError, pending, latest>>

InitApp ==
    /\ stats = Null
    /\ fitness = "AVERAGE" /\ pace = "STEADY" /\ weight = "LIGHT"
    /\ includeBreaks = TRUE
    /\ smoothingLevel = 1
    /\ now \in Clocks
    /\ selectedDate = <<getMonth(now), getDate(now)>>
    /\ startTime = [hours |-> 9, mins |-> 0]
    /\ weather = Null /\ weatherLoading = FALSE /\ weatherError = Null
    /\ estimations = <<>>
    /\ aggregate = Null /\ difficulty = Null /\ bioMetrics = Null /\ safety = Null
    /\ error = Null
    /\ pending = <<>>
    /\ latest = [request |-> Null, status |-> "none"]
    /\ events = 0

HarnessOff == arg = <<>> /\ res = "none" /\ pc = "off"

Init == InitApp /\ HarnessOff

\* reader.onload of handleFileUpload, for a file with the given trkpts
handleFileUpload(trkpts) ==
    LET parsed == ParsedFiles[trkpts]
    IN  IF parsed.ok
        THEN /\ UserEvent
             /\ stats' = Some(parsed.stats)
             /\ error' = Null
             /\ weather' = Null
             /\ smoothingLevel' = 1
             /\ WeatherEffect(stats', selectedDate)
             /\ CalcEffect(stats', fitness, pace, weight, includeBreaks, weather', startTime)
             /\ UNCHANGED <<fitness, pace, weight, includeBreaks, selectedDate, startTime, now, harnessVars>>
        ELSE /\ UserEvent
             /\ error' = Some("Error reading GPX file. Please ensure it is a valid format.")
             /\ UNCHANGED <<stats, fitness, pace, weight, includeBreaks, smoothingLevel,
                            selectedDate, startTime, weather, weatherLoading, weatherError,
                            estimations, aggregate, difficulty, bioMetrics, safety,
                            pending, latest, now, harnessVars>>

\* the controls below are on the dashboard, which is there once a track is

\* the onChange of the trip date input
setSelectedDate(date) ==
    /\ stats # Null
    /\ UserEvent
    /\ date # selectedDate
    /\ selectedDate' = date
    /\ WeatherEffect(stats, selectedDate')
    /\ UNCHANGED <<stats, fitness, pace, weight, includeBreaks, smoothingLevel, startTime,
                   weather, estimations, aggregate, difficulty, bioMetrics, safety, error, now, harnessVars>>

\* the onChange of the start time input
setStartTime(time) ==
    /\ stats # Null
    /\ UserEvent
    /\ time # startTime
    /\ startTime' = time
    /\ CalcEffect(stats, fitness, pace, weight, includeBreaks, weather, startTime')
    /\ UNCHANGED <<stats, fitness, pace, weight, includeBreaks, smoothingLevel, selectedDate,
                   weather, weatherLoading, weatherError, error, pending, latest, now, harnessVars>>

setFitness(level) ==
    /\ stats # Null
    /\ UserEvent
    /\ level # fitness
    /\ fitness' = level
    /\ CalcEffect(stats, fitness', pace, weight, includeBreaks, weather, startTime)
    /\ UNCHANGED <<stats, pace, weight, includeBreaks, smoothingLevel, selectedDate, startTime,
                   weather, weatherLoading, weatherError, error, pending, latest, now, harnessVars>>

setPace(type) ==
    /\ stats # Null
    /\ UserEvent
    /\ type # pace
    /\ pace' = type
    /\ CalcEffect(stats, fitness, pace', weight, includeBreaks, weather, startTime)
    /\ UNCHANGED <<stats, fitness, weight, includeBreaks, smoothingLevel, selectedDate,
                   startTime, weather, weatherLoading, weatherError, error, pending, latest,
                   now, harnessVars>>

setWeight(pack) ==
    /\ stats # Null
    /\ UserEvent
    /\ pack # weight
    /\ weight' = pack
    /\ CalcEffect(stats, fitness, pace, weight', includeBreaks, weather, startTime)
    /\ UNCHANGED <<stats, fitness, pace, includeBreaks, smoothingLevel, selectedDate, startTime,
                   weather, weatherLoading, weatherError, error, pending, latest, now, harnessVars>>

\* the onClick of the breaks switch
setIncludeBreaks ==
    /\ stats # Null
    /\ UserEvent
    /\ includeBreaks' = ~includeBreaks
    /\ CalcEffect(stats, fitness, pace, weight, includeBreaks', weather, startTime)
    /\ UNCHANGED <<stats, fitness, pace, weight, smoothingLevel, selectedDate, startTime,
                   weather, weatherLoading, weatherError, error, pending, latest, now, harnessVars>>

\* a variant whose weather effect depends on the smoothing level too
WeatherEffectDeps_level == { "stats", "selectedDate", "smoothingLevel" }

\* the dependency lists of the two effects
WeatherEffectDeps == { "stats", "selectedDate" }
CalcEffectDeps == { "stats", "fitness", "pace", "weight", "includeBreaks", "weather",
                    "startTime" }

\* the useMemo of the chart: the series and the slope breakdown on display
smoothedPoints ==
    IF stats = Null THEN <<>> ELSE smoothGPXPoints(stats[1].points, smoothingLevel)
currentSlopeBreakdown ==
    IF stats = Null THEN Null
    ELSE Some(calculateSlopeBreakdown(smoothedPoints, stats[1].totalDistance))

\* cycleSmoothing of the map, with the effects that depend on the level
cycleSmoothing ==
    /\ stats # Null
    /\ UserEvent
    /\ smoothingLevel' = (smoothingLevel + 1) % 5
    /\ IF "smoothingLevel" \in WeatherEffectDeps
       THEN WeatherEffect(stats, selectedDate)
       ELSE UNCHANGED <<weatherLoading, weatherError, pending, latest>>
    /\ IF "smoothingLevel" \in CalcEffectDeps
       THEN CalcEffect(stats, fitness, pace, weight, includeBreaks, weather, startTime)
       ELSE UNCHANGED <<estimations, aggregate, difficulty, bioMetrics, safety>>
    /\ UNCHANGED <<stats, fitness, pace, weight, includeBreaks, selectedDate, startTime,
                   weather, error, now, harnessVars>>

\* pending without its i-th call
Settle(i) == SubSeq(pending, 1, i - 1) \o SubSeq(pending, i + 1, Len(pending))

\* how the call issued last has settled, once call i has
Settled(i, status) ==
    IF i = Len(pending) /\ latest.status = "pending"
    THEN [latest EXCEPT !.status = status] ELSE latest

\* the i-th call in flight resolves: getWeather goes on after its await
weatherFulfilled(i) ==
    /\ i \in 1..Len(pending)
    /\ weather' = Some(Forecast(pending[i]))
    /\ weatherLoading' = FALSE
    /\ pending' = Settle(i)
    /\ latest' = Settled(i, "fulfilled")
    /\ CalcEffect(stats, fitness, pace, weight, includeBreaks, weather', startTime)
    /\ UNCHANGED <<stats, fitness, pace, weight, includeBreaks, smoothingLevel, selectedDate,
                   startTime, weatherError, error, now, events, harnessVars>>

\* the i-th call in flight rejects: the catch and the finally of getWeather
weatherRejected(i) ==
    /\ i \in 1..Len(pending)
    /\ weatherError' = Some("Could not fetch forecast. Is the date too far in the future?")
    /\ weather' = Null
    /\ weatherLoading' = FALSE
    /\ pending' = Settle(i)
    /\ latest' = Settled(i, "rejected")
    /\ IF weather # Null
       THEN CalcEffect(stats, fitness, pace, weight, includeBreaks, weather', startTime)
       ELSE UNCHANGED <<estimations, aggregate, difficulty, bioMetrics, safety>>
    /\ UNCHANGED <<stats, fitness, pace, weight, includeBreaks, smoothingLevel, selectedDate,
                   startTime, error, now, events, harnessVars>>

Next ==
    \/ \E trkpts \in Files : handleFileUpload(trkpts)
    \/ \E date \in AppDates : setSelectedDate(date)
    \/ \E time \in AppStartTimes : setStartTime(time)
    \/ \E level \in AppFitness : setFitness(level)
    \/ \E type \in AppPace : setPace(type)
    \/ \E pack \in AppWeight : setWeight(pack)
    \/ setIncludeBreaks
    \/ cycleSmoothing
    \/ \E i \in 1..MaxEvents : weatherFulfilled(i)
    \/ \E i \in 1..MaxEvents : weatherRejected(i)

Spec == Init /\ [][Next]_vars

----------------------------------------------------------------------------
(* Properties of the App (Spec).                                           *)

\* no fetchWeatherForecast call is in flight and one has been made
Quiet == pending = <<>> /\ latest.status # "none"

\* C1: once no request is in flight, the weather the App holds is the result
\* of the request issued last: its forecast if it resolved, none if it
\* rejected; never the result of an older request.
C1_LastRequestWins ==
    Quiet => weather = (IF latest.status = "fulfilled"
                        THEN Some(Forecast(latest.request[1])) ELSE Null)

\* where C1 fails: all requests have settled, the last one resolved, and the
\* App holds the forecast of another
C1_StaleWeather ==
    /\ Quiet
    /\ latest.status = "fulfilled"
    /\ weather # Null
    /\ weather # Some(Forecast(latest.request[1]))

\* the message handleFileUpload sets in its catch
UploadError == Some("Error reading GPX file. Please ensure it is a valid format.")

\* C2: parseGPX gives an error and no RouteStats for a track without points,
\* and the upload of such a track sets the error message and leaves stats,
\* weather, the smoothing level and every derived result as they were.
C2_EmptyTrackRejected ==
    /\ ~parseGPX(<<>>).ok
    /\ [][handleFileUpload(<<>>) =>
            /\ error' = UploadError
            /\ UNCHANGED <<stats, weather, smoothingLevel, estimations, aggregate,
                           difficulty, bioMetrics, safety>>]_vars

\* an empty track was uploaded over a loaded one whose forecast had come and
\* whose smoothing level had been changed
C2_Witness ==
    /\ error = UploadError
    /\ stats # Null
    /\ weather # Null
    /\ smoothingLevel # 1
    /\ Len(estimations) = 5

\* the methods of a list of estimates
Methods(estimates) == { estimates[i].method : i \in DOMAIN estimates }

\* C3: whenever a track is loaded and the weather is absent, the five
\* estimates, the aggregate, the difficulty rating and the bio-metrics are
\* there, and the safety result has no sunset time and isNightHiking = FALSE.
C3_WeatherOptional ==
    (stats # Null /\ weather = Null) =>
        /\ Len(estimations) = 5
        /\ Cardinality(Methods(estimations)) = 5
        /\ \A i \in DOMAIN estimations : IsInteger(estimations[i].timeMinutes)
        /\ aggregate # Null /\ IsInteger(aggregate[1].val)
        /\ difficulty # Null
        /\ bioMetrics # Null
        /\ safety # Null
        /\ safety[1].sunsetTime = Null
        /\ safety[1].isNightHiking = FALSE

\* the forecast of a loaded track was there and the fetch for another date
\* failed: the weather is absent again, with the App at rest
C3_Witness ==
    /\ stats # Null
    /\ weather = Null
    /\ weatherError # Null
    /\ pending = <<>>
    /\ safety # Null
    /\ safety[1].sunsetTime = Null
    /\ events >= 2

\* C12: whenever a track is loaded (every step being a handler with the
\* effects that follow it), the stored estimates, aggregate, difficulty,
\* bio-metrics and safety are what the pure functions give for the current
\* track, profile, weather and start time: the aggregate is that of the
\* stored estimates, bio-metrics and safety come from its value and the
\* current weather.
C12_DerivedCurrent ==
    stats # Null =>
        LET ctx == [stats |-> stats[1], fitness |-> fitness, pace |-> pace, weight |-> weight,
                    includeBreaks |-> includeBreaks]
            maxTemp == IF weather = Null THEN Null ELSE Some(weather[1].maxTemp)
            sunset == IF weather = Null THEN Null ELSE Some(weather[1].sunset)
        IN  /\ estimations = AppEstimates[ctx]
            /\ difficulty = Some(calculateDifficulty(stats[1]))
            /\ aggregate # Null
            /\ \E fpAbove \in BOOLEAN :
                  aggregate[1] = calculateSmartAggregate(estimations, fpAbove)
            /\ bioMetrics = Some(calculateBioMetrics(ctx, aggregate[1].val, maxTemp))
            /\ safety = Some(calculateSafety(startTime, aggregate[1].val, sunset, now))

\* a forecast has arrived after the profile and the start time were changed
C12_Witness ==
    /\ stats # Null
    /\ weather # Null
    /\ pending = <<>>
    /\ startTime.hours = 20
    /\ fitness # "AVERAGE"
    /\ safety # Null
    /\ safety[1].sunsetTime # Null

\* the App as the pure-function specifications hold it: just constructed
AppIdle == InitApp /\ now = TimeValue(6, 15, 8, 0)

----------------------------------------------------------------------------
(* parseGPX as a specification: any track, parsed once.                    *)

InitGeo == /\ AppIdle
           /\ arg \in { <<>> } \cup TracksOver(Starts, Steps, MaxPoints)
           /\ res = "none"
           /\ pc = "ready"

ParseTrack == /\ pc = "ready"
              /\ res' = parseGPX(arg)
              /\ pc' = "done"
              /\ UNCHANGED <<arg, appVars>>

NextGeo == ParseTrack

SpecGeo == InitGeo /\ [][NextGeo]_vars

----------------------------------------------------------------------------
(* Properties of parseGPX (SpecGeo).                                       *)

Parsed == pc = "done" /\ res.ok

\* C8: for every track parseGPX yields totalDistance >= 0 and points whose
\* distFromStart is 0 at the first point and never decreases from a point to
\* the next.
C8_DistanceMonotone ==
    Parsed =>
        /\ RGe(res.stats.totalDistance, Zero)
        /\ Len(res.stats.points) = Len(arg)
        /\ res.stats.points[1].distFromStart = Zero
        /\ \A i \in 2..Len(res.stats.points) :
              RGe(res.stats.points[i].distFromStart, res.stats.points[i - 1].distFromStart)

\* a parsed track that goes on, stays within the same metre, and turns back
C8_Witness ==
    /\ Parsed
    /\ Len(arg) >= 3
    /\ \E i \in 2..Len(arg) : arg[i].lat < arg[i - 1].lat
    /\ \E i \in 2..Len(arg) :
          RGt(res.stats.points[i].distFromStart, res.stats.points[i - 1].distFromStart)

\* the elevation deltas of a track in decimetres
Deltas(trkpts) == [i \in 1..(Len(trkpts) - 1) |-> trkpts[i + 1].ele - trkpts[i].ele]

RECURSIVE SumSeq(_)
SumSeq(q) == IF Len(q) = 0 THEN 0 ELSE q[1] + SumSeq(Tail(q))

\* the deltas above 0.5 m (5 dm), and the magnitudes of those below -0.5 m
Climbs(trkpts) == [i \in DOMAIN Deltas(trkpts) |->
                      IF Deltas(trkpts)[i] > 5 THEN Deltas(trkpts)[i] ELSE 0]
Drops(trkpts) == [i \in DOMAIN Deltas(trkpts) |->
                      IF Deltas(trkpts)[i] < -5 THEN -Deltas(trkpts)[i] ELSE 0]

\* decimetres to the nearest metre
NearestMetre(dm) == (2 * dm + 10) \div 20

\* C9: elevationGain >= 0 and elevationLoss >= 0; only the consecutive
\* deltas of magnitude > 0.5 m count, the positive ones to the gain and the
\* negative ones by magnitude to the loss, so a track whose deltas are all
\* within 0.5 m has gain = loss = 0.
C9_NoiseFloor ==
    Parsed =>
        /\ RGe(res.stats.elevationGain, Zero)
        /\ RGe(res.stats.elevationLoss, Zero)
        /\ res.stats.elevationGain = Num(NearestMetre(SumSeq(Climbs(arg))))
        /\ res.stats.elevationLoss = Num(NearestMetre(SumSeq(Drops(arg))))
        /\ (\A i \in DOMAIN Deltas(arg) : Abs(Deltas(arg)[i]) <= 5)
              => res.stats.elevationGain = Zero /\ res.stats.elevationLoss = Zero

\* a track with a delta of exactly 0.5 m, one of 0.3 m, and nothing counted
C9_Witness ==
    /\ Parsed
    /\ \E i \in DOMAIN Deltas(arg) : Deltas(arg)[i] = 5
    /\ \E i \in DOMAIN Deltas(arg) : Abs(Deltas(arg)[i]) = 3
    /\ res.stats.elevationGain = Zero
    /\ res.stats.elevationLoss = Zero

SumBuckets(sd) ==
    RAdd(sd.steepDown, RAdd(sd.moderateDown, RAdd(sd.mildDown, RAdd(sd.flat,
        RAdd(sd.mildUp, RAdd(sd.moderateUp, sd.steepUp))))))

NonEmptyBuckets(sd) == Cardinality({ b \in Buckets : sd[b] # Zero })

\* C10: for a track of at least 2 points the bucket distances add up to
\* totalDistance up to the display rounding: before rounding the buckets
\* hold exactly the distance between the first and the last point (each
\* segment in one bucket), and rounding moves each filled bucket and
\* totalDistance by at most 0.005 km and distFromStart by at most 0.0005 km.
C10_BucketCoverage ==
    (Parsed /\ Len(arg) >= 2) =>
        LET pts == res.stats.points
            raw == SlopeLoop(pts, 2, [b \in Buckets |-> Zero])
            off == RAbs(RSub(SumBuckets(res.stats.slopeBreakdown), res.stats.totalDistance))
        IN  /\ SumBuckets(raw) = pts[Len(pts)].distFromStart
            /\ RLe(off, RAdd(RMul(<<1, 200>>, Num(NonEmptyBuckets(raw) + 1)), <<1, 2000>>))

\* three points, two filled buckets
C10_Witness ==
    /\ Parsed
    /\ Len(arg) >= 3
    /\ NonEmptyBuckets(res.stats.slopeBreakdown) >= 2

----------------------------------------------------------------------------
(* The five estimators as a specification: any RouteStats of a non-empty   *)
(* track and any hiker profile, estimated once.                            *)

InitEst == /\ AppIdle
           /\ \E t \in TracksOver({ <<0, 0>> }, EstSteps, MaxPoints) \cup { FlatTenKm } :
                 arg \in [stats : { parseGPX(t).stats }, fitness : FitnessLevel,
                          pace : PaceType, weight : PackWeight, includeBreaks : BOOLEAN]
           /\ res = "none"
           /\ pc = "ready"

RunEstimators == /\ pc = "ready"
                 /\ res' = Estimators(arg)
                 /\ pc' = "done"
                 /\ UNCHANGED <<arg, appVars>>

NextEst == RunEstimators

SpecEst == InitEst /\ [][NextEst]_vars

\* C6: for every RouteStats of a non-empty track (totalDistance = 0
\* included) and every profile, each of the five estimators returns a
\* timeMinutes that is a finite integer >= 0.
C6_EstimatesTotal ==
    pc = "done" =>
        /\ Len(res) = 5
        /\ \A i \in 1..5 :
              /\ IsFinite(res[i].timeMinutes)
              /\ IsInteger(res[i].timeMinutes)
              /\ res[i].timeMinutes[1] >= 0

\* estimated: a track of several points that never leaves the spot
C6_Witness ==
    /\ pc = "done"
    /\ Len(arg.stats.points) >= 2
    /\ arg.stats.totalDistance = Zero
    /\ arg.stats.elevationGain # Zero
    /\ res[2].timeMinutes = Zero

\* the segments of a point sequence, as pairs of indices
Segments(points) == { i \in 2..Len(points) : TRUE }
SegDist(points, i) ==
    calculateDistance(points[i - 1].lat, points[i - 1].lon, points[i].lat, points[i].lon)
SegSlope(points, i) == ToblerSlope(points[i - 1], points[i], SegDist(points, i))
SegHours(points, i) == ToblerSegmentHours(points[i - 1], points[i])

RECURSIVE SumHours(_, _)
SumHours(points, i) ==
    IF i < 2 THEN Zero ELSE RAdd(SumHours(points, i - 1), SegHours(points, i))

\* C7: for every segment of non-zero distance the velocity used is at least
\* 0.5 km/h, so the unscaled segment time is finite, non-negative and at
\* most distance / 0.5 hours, and it is distance / 0.5 whenever the formula
\* yields less than 0.5 km/h (as on a 200 % grade); a zero-distance segment
\* adds no time; the Tobler estimate is built from these segment times.
C7_ToblerFloor ==
    pc = "done" =>
        LET pts == arg.stats.points
        IN  /\ \A i \in Segments(pts) :
                  LET dist == SegDist(pts, i)
                      t == SegHours(pts, i)
                  IN  IF dist = Zero THEN t = Zero
                      ELSE /\ RGe(ToblerVelocity(SegSlope(pts, i)), <<1, 2>>)
                           /\ IsFinite(t)
                           /\ RGe(t, Zero)
                           /\ RLe(t, RDiv(dist, <<1, 2>>))
                           /\ RLt(ToblerFormula(SegSlope(pts, i)), <<1, 2>>)
                                 => t = RDiv(dist, <<1, 2>>)
                           /\ SegSlope(pts, i) = Num(2) => t = RDiv(dist, <<1, 2>>)
            /\ res[2].timeMinutes =
                  MathRound(applyBreaks(
                      RMul(RMul(SumHours(pts, Len(pts)), RDiv(Num(6), getCalculatedSpeed(arg))),
                           Num(60)), arg))

\* estimated: a track with a 1 km segment at 200 % grade, which is clamped,
\* and a segment that is not
C7_Witness ==
    /\ pc = "done"
    /\ \E i \in Segments(arg.stats.points) :
          /\ SegDist(arg.stats.points, i) = Num(1)
          /\ SegSlope(arg.stats.points, i) = Num(2)
          /\ SegHours(arg.stats.points, i) = Num(2)
    /\ \E i \in Segments(arg.stats.points) :
          /\ SegDist(arg.stats.points, i) # Zero
          /\ RGt(ToblerFormula(SegSlope(arg.stats.points, i)), <<1, 2>>)

----------------------------------------------------------------------------
(* calculateSmartAggregate as a specification: any list of estimates,      *)
(* aggregated once.                                                        *)

InitAgg == /\ AppIdle
           /\ \E S \in AggMinutes, k \in 0..MaxEstimates :
                 arg \in [1..k -> { Estimation(v) : v \in S }]
           /\ res = "none"
           /\ pc = "ready"

Aggregate == /\ pc = "ready"
             /\ \E fpAbove \in BOOLEAN : res' = calculateSmartAggregate(arg, fpAbove)
             /\ arg' = EstimationsAfter(arg)
             /\ pc' = "done"
             /\ UNCHANGED appVars

NextAgg == Aggregate

SpecAgg == InitAgg /\ [][NextAgg]_vars

\* the minutes of a list of estimates, as integers
Minutes(ests) == [i \in DOMAIN ests |-> ests[i].timeMinutes[1]]

\* the k-th smallest of a list of integers
Kth(q, k) ==
    CHOOSE x \in { q[i] : i \in DOMAIN q } :
        /\ Cardinality({ i \in DOMAIN q : q[i] < x }) < k
        /\ Cardinality({ i \in DOMAIN q : q[i] <= x }) >= k

\* twice the median of a non-empty list of integers
TwiceMedian(q) ==
    IF Len(q) % 2 = 1 THEN 2 * Kth(q, (Len(q) + 1) \div 2)
    ELSE Kth(q, Len(q) \div 2) + Kth(q, Len(q) \div 2 + 1)

\* |mean - median| compared with 0.10 * median, both times 20 * Len(q)
Deviation20(q) == 10 * Abs(2 * SumSeq(q) - Len(q) * TwiceMedian(q))
Tenth20(q) == Len(q) * TwiceMedian(q)

ReportsMedian(q, r) == r.type = "MEDIAN" /\ r.val = MathRound(RNorm(TwiceMedian(q), 2))
ReportsMean(q, r) == r.type = "MEAN" /\ r.val = MathRound(RNorm(SumSeq(q), Len(q)))

\* C4 as stated: MEDIAN with the median exactly when |mean - median| / median
\* > 0.10, otherwise MEAN with the mean.
C4_AsStated ==
    (pc = "done" /\ Len(arg) > 0) =>
        LET q == Minutes(arg)
        IN  IF Deviation20(q) > Tenth20(q)
            THEN res.type = "MEDIAN" /\ res.val = RNorm(TwiceMedian(q), 2)
            ELSE res.type = "MEAN" /\ res.val = RNorm(SumSeq(q), Len(q))

\* C4, amended: for every non-empty list the aggregate is MEDIAN with the
\* median rounded to the nearest integer when |mean - median| > 0.10 * median,
\* and MEAN with the mean rounded to the nearest integer when it is less (or
\* when all is 0); when the deviation is exactly 10 % of a non-zero median the
\* floating-point comparison decides between the two.  The median is the
\* middle value of the sorted list (the average of the two middle values for
\* an even count).  [100,100,100,100,500] gives MEDIAN 100 and
\* [100,102,98,101,99] gives MEAN 100.
C4_MeanOrMedian ==
    (pc = "done" /\ Len(arg) > 0) =>
        LET q == Minutes(arg)
        IN  /\ Deviation20(q) > Tenth20(q) => ReportsMedian(q, res)
            /\ Deviation20(q) < Tenth20(q) => ReportsMean(q, res)
            /\ Deviation20(q) = Tenth20(q) =>
                  IF Tenth20(q) = 0 THEN ReportsMean(q, res)
                  ELSE ReportsMedian(q, res) \/ ReportsMean(q, res)
            /\ q = <<100, 100, 100, 100, 500>> => res.type = "MEDIAN" /\ res.val = Num(100)
            /\ q = <<100, 102, 98, 101, 99>> => res.type = "MEAN" /\ res.val = Num(100)

\* aggregated: the outlier example, out of order
C4_Witness ==
    /\ pc = "done"
    /\ Minutes(arg) = <<100, 500, 100, 100, 100>>
    /\ res.type = "MEDIAN"
    /\ res.val = Num(100)

\* C5: given an empty list calculateSmartAggregate returns value 0 with an
\* explanatory reason; it does not fail.
C5_EmptyList ==
    (pc = "done" /\ Len(arg) = 0) =>
        /\ res.val = Zero
        /\ res.type \in {"MEAN", "MEDIAN"}
        /\ res.reason = <<"No data">>

\* aggregated: the empty list
C5_Witness == pc = "done" /\ arg = <<>> /\ res.val = Zero

----------------------------------------------------------------------------
(* calculateSafety as a specification: any start time, duration and        *)
(* sunset, computed on one day and computed again on another.              *)

\* the start times, the durations (minutes) and the sunsets the forecast
\* gives: none, or 18:30, 19:30 and 21:30 on a day of May, June or July
SafetyStarts == { [hours |-> 9, mins |-> 0], [hours |-> 20, mins |-> 0] }
SafetyDurations == { Zero, Num(90), Num(600), Num(630) }
SafetySunsets ==
    { Null } \cup
    { Some([month |-> d[1], day |-> d[2], hours |-> t[1], mins |-> t[2]]) :
        d \in { <<5, 31>>, <<6, 15>>, <<7, 10>> },
        t \in { <<18, 30>>, <<19, 30>>, <<21, 30>> } }

\* the days the computation runs on, at 08:00
SafetyClocks == { TimeValue(5, 31, 8, 0), TimeValue(6, 15, 8, 0), TimeValue(7, 10, 8, 0) }

InitSafety == /\ AppIdle
              /\ arg \in [startTime : SafetyStarts, durationMinutes : SafetyDurations,
                          sunset : SafetySunsets, clocks : SafetyClocks \X SafetyClocks]
              /\ res = <<>>
              /\ pc = "ready"

\* calculateSafety is called when new Date() is arg.clocks[1]
RunSafety == /\ pc = "ready"
             /\ res' = <<calculateSafety(arg.startTime, arg.durationMinutes, arg.sunset,
                                         arg.clocks[1])>>
             /\ pc' = "done"
             /\ UNCHANGED <<arg, appVars>>

\* and once more with the same arguments when new Date() is arg.clocks[2]
RunSafetyAgain == /\ pc = "done"
                  /\ res' = Append(res, calculateSafety(arg.startTime, arg.durationMinutes,
                                                        arg.sunset, arg.clocks[2]))
                  /\ pc' = "again"
                  /\ UNCHANGED <<arg, appVars>>

NextSafety == RunSafety \/ RunSafetyAgain

SpecSafety == InitSafety /\ [][NextSafety]_vars

\* minutes from midnight of a time of day
MinuteOfDay(t) == t.hours * 60 + t.mins

\* the finish is later than the sunset, both on the trip date
FinishesAfterSunset == RGt(RAdd(Num(MinuteOfDay(arg.startTime)), arg.durationMinutes),
                           Num(MinuteOfDay(arg.sunset[1])))

\* C11: with a sunset supplied, isNightHiking is true exactly when the
\* finish (start time of day plus duration) is later than that sunset, for
\* every start time, duration and trip date, also a trip date of another
\* month than the day of the computation.
C11_NightHiking ==
    (pc = "done" /\ arg.sunset # Null) => (res[1].isNightHiking <=> FinishesAfterSunset)

\* computed on 15 June for a trip on 10 July: 20:00 + 600 min is past the
\* sunset of 19:30, and isNightHiking is false
C11_Witness ==
    /\ pc = "done"
    /\ arg.clocks[1] = TimeValue(6, 15, 8, 0)
    /\ arg.sunset # Null
    /\ arg.sunset[1].month = 7
    /\ FinishesAfterSunset
    /\ ~res[1].isNightHiking

\* C13, for calculateSafety: computed twice with the same start time,
\* duration and sunset, isNightHiking is the same and the finish is at the
\* same time of day, whatever the days of the two computations.
C13_Deterministic ==
    pc = "again" =>
        /\ res[1].isNightHiking = res[2].isNightHiking
        /\ RSub(res[1].finishTime, Num(arg.clocks[1])) = RSub(res[2].finishTime, Num(arg.clocks[2]))

\* the same arguments on two days, and two answers
C13_Witness ==
    /\ pc = "again"
    /\ arg.clocks[1] # arg.clocks[2]
    /\ res[1].isNightHiking # res[2].isNightHiking

----------------------------------------------------------------------------
(* The five estimators evaluated one at a time, in any order, on one       *)
(* CalculationContext.                                                     *)

\* the i-th estimator of the calculation effect's list
Estimator(i, ctx) ==
    CASE i = 1 -> calculateNaismith(ctx)
      [] i = 2 -> calculateTobler(ctx)
      [] i = 3 -> calculateMunter(ctx)
      [] i = 4 -> calculateSwiss(ctx)
      [] i = 5 -> calculatePetzoldt(ctx)

\* a variant whose estimators add their minutes to one total they share
Evaluated_shared(results, i, ctx) ==
    LET sofar == Reduce([k \in 1..5 |-> IF results[k] = Null THEN Zero
                                        ELSE results[k][1].timeMinutes])
    IN  [results EXCEPT ![i] = Some([Estimator(i, ctx) EXCEPT !.timeMinutes = RAdd(@, sofar)])]

\* the results once estimator i has returned: it reads ctx and writes
\* nothing but its own result
Evaluated(results, i, ctx) == [results EXCEPT ![i] = Some(Estimator(i, ctx))]

InitOrder == /\ AppIdle
             /\ \E t \in TracksOver({ <<0, 0>> }, EstSteps, MaxPoints) :
                   arg \in [stats : { parseGPX(t).stats }, fitness : AppFitness,
                            pace : AppPace, weight : AppWeight, includeBreaks : BOOLEAN]
             /\ res = [i \in 1..5 |-> Null]
             /\ pc = "ready"

Evaluate(i) == /\ pc = "ready"
               /\ res[i] = Null
               /\ res' = Evaluated(res, i, arg)
               /\ pc' = IF \A k \in 1..5 : res'[k] # Null THEN "done" ELSE "ready"
               /\ UNCHANGED <<arg, appVars>>

NextOrder == \E i \in 1..5 : Evaluate(i)

SpecOrder == InitOrder /\ [][NextOrder]_vars

----------------------------------------------------------------------------
(* smoothGPXPoints as a specification: a series of points, smoothed once   *)
(* at a level.                                                             *)

\* the elevation (decimetres) of the i-th point (0-based) of a profile
ProfileEle(profile, i) ==
    CASE profile = "flat" -> 0
      [] profile = "ramp" -> 2 * i
      [] profile = "saw" -> 5 * (i % 3)

\* the points parseGPX gives for n trkpts dLat decimetres apart on a profile
SeriesOf(n, dLat, profile) ==
    [k \in 1..n |->
        [lat |-> (k - 1) * dLat, lon |-> 0,
         ele |-> RNorm(ProfileEle(profile, k - 1), 10),
         distFromStart |-> ToFixed(RNorm((k - 1) * dLat, 10000), 3),
         slope |-> IF k > 1 /\ dLat > 10
                   THEN RNorm(100 * (ProfileEle(profile, k - 1) - ProfileEle(profile, k - 2)),
                              dLat)
                   ELSE Zero]]

\* lengths around the strides 1, 2 and 3, and short ones
SeriesLengths == { 1, 2, 3, 7, 100, 1000, 1001, 2000, 2001 }

\* 0 m, 0.4 m, 1 m and 20 m from a point to the next
SeriesSpacings == { 0, 4, 10, 200 }

\* the levels a series is smoothed at: all for the short ones, 0 and 1 for
\* the long ones
SeriesLevels(n) == IF n <= 100 THEN 0..4 ELSE 0..1

InitSmooth == /\ AppIdle
              /\ \E n \in SeriesLengths, dLat \in SeriesSpacings,
                    profile \in { "flat", "ramp", "saw" } :
                    arg \in [points : { SeriesOf(n, dLat, profile) }, level : SeriesLevels(n)]
              /\ res = "none"
              /\ pc = "ready"

Smooth == /\ pc = "ready"
          /\ res' = smoothGPXPoints(arg.points, arg.level)
          /\ arg' = [arg EXCEPT !.points = InputAfter(arg.points, res')]
          /\ pc' = "done"
          /\ UNCHANGED appVars

NextSmooth == Smooth

SpecSmooth == InitSmooth /\ [][NextSmooth]_vars

\* the stride max(1, ceil(n / 1000)) of n points
Stride(n) == IF n <= 1000 THEN 1 ELSE (n + 999) \div 1000

\* the slope in percent from point a to point b when they are more than 1 m
\* (10 dm) apart, 0 otherwise
SpanSlope(a, b) ==
    IF Abs(b.lat - a.lat) > 10
    THEN RMul(RDiv(RSub(b.ele, a.ele), RNorm(Abs(b.lat - a.lat), 10)), Num(100))
    ELSE Zero

\* C15: at level 0 a track of n >= 1 points gives ceil(n / step) points,
\* step = max(1, ceil(n / 1000)): the points of the indices 0, step,
\* 2 * step, ... in order, each with the slope from its predecessor in this
\* series (0 for the first and over spans of at most 1 m), not the slope it
\* came with.
C15_Downsampled ==
    (pc = "done" /\ arg.level = 0 /\ Len(arg.points) >= 1) =>
        LET n == Len(arg.points)
            step == Stride(n)
        IN  /\ Len(res) = (n + step - 1) \div step
            /\ \A j \in 1..Len(res) :
                  LET p == arg.points[(j - 1) * step + 1]
                  IN  /\ res[j].lat = p.lat /\ res[j].lon = p.lon /\ res[j].ele = p.ele
                      /\ res[j].distFromStart = p.distFromStart
                      /\ res[j].slope = IF j = 1 THEN Zero
                                        ELSE SpanSlope(arg.points[(j - 2) * step + 1], p)

\* 2001 points at stride 3: 667 points, with slopes other than those of the
\* input
C15_Witness ==
    /\ pc = "done"
    /\ arg.level = 0
    /\ Len(arg.points) = 2001
    /\ Len(res) = 667
    /\ \E j \in 2..Len(res) : res[j].slope # arg.points[(j - 1) * 3 + 1].slope

----------------------------------------------------------------------------
(* Naismith's rule with breaks off (calcService.ts, calculateNaismith).    *)

\* the climb rate the rule is stated with: 800 m/h for the two top fitness
\* levels, 600 m/h for the others
NaismithClimbFactor(level) ==
    IF level \in { "ELITE", "SUPER_HUMAN" } THEN 800 ELSE 600

FlatTenKmHiker(ctx) ==
    /\ ctx.stats = parseGPX(FlatTenKm).stats
    /\ ctx.fitness = "AVERAGE" /\ ctx.pace = "STEADY" /\ ctx.weight = "LIGHT"
    /\ ~ctx.includeBreaks

\* C16: with breaks off calculateNaismith returns
\* round((totalDistance / combinedSpeed + elevationGain / climbFactor) * 60)
\* minutes, climbFactor being 800 for Elite and Super-human and 600 for the
\* other fitness levels; the flat 10 km route at Average fitness, Steady
\* pace, Light pack and no breaks gives 150 minutes.
C16_NaismithFormula ==
    (pc = "done" /\ ~arg.includeBreaks) =>
        /\ res[1].timeMinutes =
              MathRound(RMul(RAdd(RDiv(arg.stats.totalDistance, getCalculatedSpeed(arg)),
                                  RDiv(arg.stats.elevationGain,
                                       Num(NaismithClimbFactor(arg.fitness)))),
                             Num(60)))
        /\ FlatTenKmHiker(arg) =>
              /\ arg.stats.totalDistance = Num(10)
              /\ arg.stats.elevationGain = Zero /\ arg.stats.elevationLoss = Zero
              /\ res[1].timeMinutes = Num(150)

\* estimated: the flat 10 km route for that hiker
C16_Witness ==
    /\ pc = "done"
    /\ FlatTenKmHiker(arg)
    /\ res[1].timeMinutes = Num(150)

----------------------------------------------------------------------------
(* Rest breaks (calcService.ts, applyBreaks and its five callers).         *)

RunningStyles == { "TRAIL_RUN", "SKY_RUN" }

\* the rule as stated: 10 minutes for every completed hour of moving time
WithBreaks(moving) == RAdd(moving, Num(10 * MathFloor(RDiv(moving, Num(60)))[1]))

\* C17: each of the five estimators reports (rounded) its moving minutes
\* plus 10 * floor(moving minutes / 60) when includeBreaks is true and the
\* pace is neither Trail Running nor Sky Running, and its moving minutes
\* unchanged when includeBreaks is false or the pace is a running style.
C17_BreaksUniform ==
    pc = "done" =>
        \A i \in 1..5 :
            LET moving == MovingMinutes(arg)[i]
            IN  IF arg.includeBreaks /\ arg.pace \notin RunningStyles
                THEN res[i].timeMinutes = MathRound(WithBreaks(moving))
                ELSE res[i].timeMinutes = MathRound(moving)

\* estimated with breaks on: a walker whose five moving times all exceed
\* an hour, the flat 10 km of 150 moving minutes giving 170
C17_Witness ==
    /\ pc = "done"
    /\ arg.includeBreaks /\ arg.pace = "STEADY"
    /\ \A i \in 1..5 : RGe(MovingMinutes(arg)[i], Num(60))
    /\ NaismithMinutes(arg) = Num(150)
    /\ res[1].timeMinutes = Num(170)

----------------------------------------------------------------------------
(* calculateDifficulty as a specification: two routes of one elevation     *)
(* gain, rated one after the other.                                        *)

\* route lengths in 1/100 km, at and just under every threshold of the
\* bands, and climbs in metres
DifficultyLengths == { 0, 400, 499, 500, 799, 800, 1199, 1200, 1799, 1800,
                       2499, 2500, 3499, 3500, 4499, 4500, 6000 }
DifficultyClimbs == { 0, 100, 250 }

\* the RouteStats of the two-trkpt track of that length and climb
RouteOf(length, climb) ==
    parseGPX(Walk(<<[lat |-> 0, lon |-> 0, ele |-> 0]>>,
                  << <<length * 100, climb * 10>> >>, 1)).stats

InitDifficulty ==
    /\ AppIdle
    /\ \E climb \in DifficultyClimbs : \E la, lb \in DifficultyLengths :
          arg = << RouteOf(la, climb), RouteOf(lb, climb) >>
    /\ res = <<>>
    /\ pc = "ready"

\* the next of the two routes is rated
Rate == /\ pc = "ready"
        /\ res' = Append(res, calculateDifficulty(arg[Len(res) + 1]))
        /\ pc' = IF Len(res) = 1 THEN "done" ELSE "ready"
        /\ UNCHANGED <<arg, appVars>>

NextDifficulty == Rate

SpecDifficulty == InitDifficulty /\ [][NextDifficulty]_vars

Bands == << "Very Easy", "Easy", "Moderate", "Challenging", "Hard", "Demanding",
            "Strenuous", "Extreme" >>
BandThresholds == << 5, 8, 12, 18, 25, 35, 45 >>

\* the place of a label in the order of the bands
BandRank(label) == CHOOSE i \in 1..8 : Bands[i] = label

\* the band of a score as stated: one up for every threshold reached
StatedBand(score) ==
    Bands[1 + Cardinality({ i \in 1..7 : RGe(score, Num(BandThresholds[i])) })]

\* C18: a rating has score = totalDistance + elevationGain / 100, the band
\* given by the thresholds 5, 8, 12, 18, 25, 35, 45 with inclusive lower
\* bounds, and equivalentFlatKm = score; of two routes with the same
\* elevation gain the one with the larger totalDistance has no smaller
\* score and no lower band.
C18_DifficultyMonotone ==
    /\ \A i \in 1..Len(res) :
          /\ res[i].score = RAdd(arg[i].totalDistance, RDiv(arg[i].elevationGain, Num(100)))
          /\ res[i].equivalentFlatKm = res[i].score
          /\ res[i].label = StatedBand(res[i].score)
    /\ (pc = "done" /\ arg[1].elevationGain = arg[2].elevationGain
          /\ RLe(arg[1].totalDistance, arg[2].totalDistance)) =>
              /\ RLe(res[1].score, res[2].score)
              /\ BandRank(res[1].label) <= BandRank(res[2].label)

\* rated: a route just under a threshold and a longer one exactly on it
C18_Witness ==
    /\ pc = "done"
    /\ RGt(arg[1].elevationGain, Zero)
    /\ RLt(arg[1].totalDistance, arg[2].totalDistance)
    /\ res[1].label = "Very Easy" /\ res[2].score = Num(5) /\ res[2].label = "Easy"

----------------------------------------------------------------------------
(* Precision of what parseGPX hands on (SpecGeo).  The RouteStats it       *)
(* returns is the stats state of the App (App.tsx, handleFileUpload), the  *)
(* ctx.stats of the estimators and the input of calculateDifficulty and    *)
(* calculateBioMetrics; its points feed calculateSlopeBreakdown.           *)

\* the accumulators of parseGPX's loop after the first n trkpts
Accumulated(trkpts, n) == ParseLoop(SubSeq(trkpts, 1, n), 1, ParseStart)

\* C19: the totalDistance, elevationGain and elevationLoss of the RouteStats
\* that the estimators, the difficulty score and the bio-metrics consume
\* equal the full-precision sums over the segments, and the distFromStart
\* of every point equals the full-precision cumulative distance.
C19_FullPrecision ==
    Parsed =>
        LET sums == Accumulated(arg, Len(arg))
        IN  /\ res.stats.totalDistance = sums.totalDistance
            /\ res.stats.elevationGain = sums.elevationGain
            /\ res.stats.elevationLoss = sums.elevationLoss
            /\ \A i \in 1..Len(arg) :
                  res.stats.points[i].distFromStart = Accumulated(arg, i).totalDistance

\* parsed: a track whose sums are cut, 2 m and 0.6 m of descent being
\* handed on as 0.00 km and 1 m, and the point 0.4 m on as 0.000 km
C19_Witness ==
    /\ Parsed
    /\ Len(arg) = 3
    /\ Accumulated(arg, 3).totalDistance = <<3, 1250>>
    /\ res.stats.totalDistance = Zero
    /\ Accumulated(arg, 3).elevationLoss = <<3, 5>>
    /\ res.stats.elevationLoss = Num(1)
    /\ Accumulated(arg, 2).totalDistance = <<1, 2500>>
    /\ res.stats.points[2].distFromStart = Zero

----------------------------------------------------------------------------
(* The bucket of each segment (SpecGeo): calculateSlopeBreakdown on the    *)
(* points parseGPX has built.                                              *)

\* the bucket of a signed slope s (percent) as stated
StatedBucket(s) ==
    LET steepness == RAbs(s)
        way == IF RGt(s, Zero) THEN "Up" ELSE "Down"
    IN  IF RLt(steepness, Num(2)) THEN "flat"
        ELSE IF RLt(steepness, Num(8)) THEN "mild" \o way
        ELSE IF RLt(steepness, Num(15)) THEN "moderate" \o way
        ELSE "steep" \o way

\* the unrounded bucket sums after the segments up to point i
BucketsUpTo(points, i) == SlopeLoop(SubSeq(points, 1, i), 2, [b \in Buckets |-> Zero])

\* the length in km of the segment that ends at trkpt i
SegmentKm(trkpts, i) ==
    calculateDistance(trkpts[i - 1].lat, trkpts[i - 1].lon, trkpts[i].lat, trkpts[i].lon)

\* the signed slope in percent of the segment that ends at point i
SegmentSlope(trkpts, points, i) ==
    RMul(RDiv(RSub(points[i].ele, points[i - 1].ele),
              RMul(SegmentKm(trkpts, i), Num(1000))), Num(100))

----------------------------------------------------------------------------
(* The moving average of smoothGPXPoints (SpecSmooth).                     *)

\* the widths of the levels 1..4 as stated
StatedWidth == << 5, 15, 40, 80 >>

\* the mean of the elevations and of the slopes of the samples lo..hi
\* (1-based) of a series
MeanEle(series, lo, hi) ==
    RDiv(SumOver([k \in DOMAIN series |-> series[k].ele], lo, hi), Num(hi - lo + 1))
MeanSlope(series, lo, hi) ==
    RDiv(SumOver([k \in DOMAIN series |-> series[k].slope], lo, hi), Num(hi - lo + 1))

\* C21: at level L in 1..4 with width w = 5, 15, 40, 80 every output point
\* with at least floor(w/2) neighbours on both sides has as elevation and
\* slope the mean over exactly w consecutive downsampled samples centred on
\* it (for an even w: as centred as w samples can be).
C21_ExactWidth ==
    (pc = "done" /\ arg.level \in 1..4) =>
        LET series == Downsample(arg.points)
            w == StatedWidth[arg.level]
            h == w \div 2
        IN  \A idx \in 1..Len(series) :
                (idx - 1 >= h /\ Len(series) - idx >= h) =>
                    \E lo \in { idx - h, idx - h + 1 } :
                        LET hi == lo + w - 1
                        IN  /\ hi <= idx + h
                            /\ res[idx].ele = MeanEle(series, lo, hi)
                            /\ res[idx].slope = MeanSlope(series, lo, hi)

\* smoothed at level 3: point 50 of 100 on the ramp is the mean of the 41
\* samples 30..70, which is not the mean of 40 samples around it
C21_Witness ==
    /\ pc = "done"
    /\ arg.level = 3
    /\ Len(res) = 100
    /\ res[51].ele = MeanEle(Downsample(arg.points), 31, 71)
    /\ res[51].ele # MeanEle(Downsample(arg.points), 31, 70)
    /\ res[51].ele # MeanEle(Downsample(arg.points), 32, 71)

\* C22: with h = floor(w/2), output point i of an n-point downsampled
\* series is the mean over the existing indices max(0, i-h) .. min(n-1, i+h)
\* divided by their number: the window is clipped at the ends, nothing is
\* read outside 0..n-1 and no value is padded in.
C22_ClippedWindow ==
    (pc = "done" /\ arg.level \in 1..4) =>
        LET series == Downsample(arg.points)
            n == Len(series)
            h == WindowSize(arg.level) \div 2
        IN  /\ Len(res) = n
            /\ \A i \in 0..(n - 1) :
                  LET first == IF i - h > 0 THEN i - h ELSE 0
                      last == IF i + h < n - 1 THEN i + h ELSE n - 1
                  IN  /\ res[i + 1].ele = MeanEle(series, first + 1, last + 1)
                      /\ res[i + 1].slope = MeanSlope(series, first + 1, last + 1)

\* smoothed at level 1: the first of 7 points on the ramp is the mean of
\* the 3 samples 0 m, 0.2 m and 0.4 m, the fourth of the 5 around it
C22_Witness ==
    /\ pc = "done"
    /\ arg.level = 1
    /\ Len(res) = 7
    /\ PointAt(arg.points, 2).ele = <<2, 5>>
    /\ PointAt(res, 0).ele = <<1, 5>>
    /\ PointAt(res, 3).ele = <<3, 5>>

\* C23: smoothing at any level changes only ele and slope: the output is
\* as long as the downsampled series and has its lat, lon and distFromStart
\* at every index, and the array passed in and its points are as before.
C23_SmoothingFrame ==
    /\ [](pc = "done" =>
            LET n == Len(arg.points)
                step == Stride(n)
            IN  /\ Len(res) = (n + step - 1) \div step
                /\ \A j \in 1..Len(res) :
                      LET p == arg.points[(j - 1) * step + 1]
                      IN  /\ res[j].lat = p.lat /\ res[j].lon = p.lon
                          /\ res[j].distFromStart = p.distFromStart)
    /\ [][arg' = arg]_vars

\* smoothed at level 4: elevations changed, the input as it was
C23_Witness ==
    /\ pc = "done"
    /\ arg.level = 4
    /\ Len(arg.points) = 100
    /\ \E j \in 1..100 : res[j].ele # arg.points[j].ele
    /\ \A j \in 1..100 : res[j].distFromStart = arg.points[j].distFromStart

----------------------------------------------------------------------------
(* The smoothing level in the App (Spec).                                  *)

\* C24: a change of the smoothing level leaves the RouteStats, the five
\* estimates (Tobler's, taken over the raw points, included), the
\* aggregate, the difficulty, the bio-metrics, the safety analysis and the
\* weather as they were and issues no weather request; only the level, of
\* which the series on display and its slope breakdown are computed, changes.
C24_SmoothingLevelFrame ==
    [][cycleSmoothing =>
          /\ smoothingLevel' # smoothingLevel
          /\ UNCHANGED <<stats, estimations, aggregate, difficulty, bioMetrics, safety,
                         weather, weatherLoading, weatherError, pending, latest>>
          /\ \E ctx \in { [stats |-> stats[1], fitness |-> fitness, pace |-> pace,
                            weight |-> weight, includeBreaks |-> includeBreaks] } :
                estimations'[2] = calculateTobler(ctx)]_vars

\* the level was raised twice on a loaded track whose forecast has come:
\* the series on display differs from the raw one, no request is open
C24_Witness ==
    /\ stats # Null
    /\ smoothingLevel = 3
    /\ weather # Null
    /\ pending = <<>>
    /\ Len(estimations) = 5
    /\ smoothedPoints # smoothGPXPoints(stats[1].points, 0)
    /\ currentSlopeBreakdown # Some(stats[1].slopeBreakdown)

----------------------------------------------------------------------------
(* The terrain tags as a specification: calculateDifficulty, which calls   *)
(* analyzeRoute, on the RouteStats of tracks long enough for the start and *)
(* finish checks.                                                          *)

\* up to 7 trkpts: from 7 on the first 15 % and the last 15 % are segments
TerrainPoints == 7

\* 1 km on the flat, at 5 % and at 20 %
TerrainSteps == { <<10000, 0>>, <<10000, 500>>, <<10000, 2000>> }

\* trailheads at sea level, at 1600 m and at 2600 m
TerrainStarts == { <<0, 0>>, <<0, 16000>>, <<0, 26000>> }

InitTerrain ==
    /\ AppIdle
    /\ \E t \in TracksOver(TerrainStarts, TerrainSteps, TerrainPoints) :
          arg = parseGPX(t).stats
    /\ res = "none"
    /\ pc = "ready"

Analyze == /\ pc = "ready"
           /\ res' = calculateDifficulty(arg)
           /\ pc' = "done"
           /\ UNCHANGED <<arg, appVars>>

NextTerrain == Analyze

SpecTerrain == InitTerrain /\ [][NextTerrain]_vars

\* the tags in the order they are reported in
TagOrder == << "High Altitude", "Alpine", "Steep Start", "Uphill Finish",
               "Technical/Steep", "Mostly Flat" >>

\* whether the check of a tag fires for a route, each taken on its own
TagFires(route, tag) ==
    LET n == Len(route.points)
        first == (n * 15) \div 100
        last == (n * 85) \div 100
    IN  CASE tag = "High Altitude" -> RGt(route.maxElevation, Num(2500))
          [] tag = "Alpine" -> /\ RGt(route.maxElevation, Num(1500))
                               /\ ~RGt(route.maxElevation, Num(2500))
          [] tag = "Steep Start" ->
                /\ first > 0 /\ first < n
                /\ RGt(RSub(route.points[first + 1].ele, route.points[1].ele),
                       RMul(route.elevationGain, <<1, 4>>))
          [] tag = "Uphill Finish" ->
                /\ last < n
                /\ RGt(RSub(route.points[n].ele, route.points[last + 1].ele), Num(150))
          [] tag = "Technical/Steep" ->
                RGt(RDiv(RAdd(route.slopeBreakdown.steepUp, route.slopeBreakdown.steepDown),
                         route.totalDistance), <<3, 10>>)
          [] tag = "Mostly Flat" ->
                RGt(RDiv(route.slopeBreakdown.flat, route.totalDistance), <<3, 5>>)

\* the tags that fire, in the order of TagOrder
Firing(route) ==
    LET Fires(tag) == TagFires(route, tag)
    IN  SelectSeq(TagOrder, Fires)

\* C25: the terrain tag string is "Varied Terrain" exactly when no check
\* fires; otherwise it is the first firing tag, or the first two joined by
\* " & ", in the order High Altitude (max elevation > 2500) / Alpine
\* (> 1500), Steep Start, Uphill Finish, Technical/Steep, Mostly Flat; each
\* check is taken on its own and never more than two tags are reported.
C25_TerrainTags ==
    pc = "done" =>
        LET tags == Firing(arg)
        IN  /\ (res.details = "Varied Terrain") <=> (Len(tags) = 0)
            /\ Len(tags) = 1 => res.details = tags[1]
            /\ Len(tags) >= 2 => res.details = tags[1] \o " & " \o tags[2]

\* analysed: a route on which five checks fire and two tags are reported
C25_Witness ==
    /\ pc = "done"
    /\ Len(Firing(arg)) = 5
    /\ res.details = "High Altitude & Steep Start"

----------------------------------------------------------------------------
(* calculateBioMetrics as a specification: a route, a pace and a pack, a   *)
(* duration and the forecast maximum if there is one.                      *)

\* durations in minutes, and forecast maxima in degrees (none, and one in
\* each band of the water rate)
BioDurations == { 0, 60, 150 }
BioTemperatures == { Null, Some(Num(0)), Some(Num(25)), Some(Num(30)), Some(Num(40)) }

InitBio ==
    /\ AppIdle
    /\ \E t \in TracksOver({ <<0, 0>> }, EstSteps, MaxPoints) :
          arg \in [ctx : [stats : { parseGPX(t).stats }, fitness : { "AVERAGE" },
                          pace : PaceType, weight : PackWeight, includeBreaks : { TRUE }],
                   durationMinutes : BioDurations, tempC : BioTemperatures]
    /\ res = "none"
    /\ pc = "ready"

RunBioMetrics ==
    /\ pc = "ready"
    /\ res' = calculateBioMetrics(arg.ctx, Num(arg.durationMinutes), arg.tempC)
    /\ pc' = "done"
    /\ UNCHANGED <<arg, appVars>>

NextBio == RunBioMetrics

SpecBio == InitBio /\ [][NextBio]_vars

\* the base MET of a pace as stated
StatedMet(type) ==
    IF type \in RunningStyles THEN Num(8) ELSE IF type = "FAST" THEN Num(5) ELSE <<7, 2>>

\* the pace whose bio-metrics a pace is stated to share
PaceClass(type) ==
    IF type \in RunningStyles THEN "TRAIL_RUN" ELSE IF type = "FAST" THEN "FAST" ELSE "STEADY"

\* one hour on a flat route with a light pack and no forecast: the calories
\* are the base MET times 75 kg, the water is the rate per hour
FlatHour ==
    /\ arg.ctx.stats.elevationGain = Zero
    /\ RGt(arg.ctx.stats.totalDistance, Zero)
    /\ arg.ctx.weight = "LIGHT"
    /\ arg.durationMinutes = 60
    /\ arg.tempC = Null

\* C26: the base MET is 8.0 for the running paces (Trail Running and Sky
\* Running), 5.0 for the Fast pace and 3.5 for every other pace, and the
\* water rate has its +0.2 L/h for exactly the Fast and the running paces.
C26_RunningMet ==
    pc = "done" =>
        /\ res = calculateBioMetrics([arg.ctx EXCEPT !.pace = PaceClass(arg.ctx.pace)],
                                     Num(arg.durationMinutes), arg.tempC)
        /\ FlatHour =>
              /\ res.calories = MathRound(RMul(StatedMet(arg.ctx.pace), Num(75)))
              /\ res.water = IF arg.ctx.pace \in RunningStyles \cup { "FAST" }
                             THEN <<7, 10>> ELSE <<1, 2>>

\* computed: an hour of Sky Running on the flat at the MET and the water
\* of walking
C26_Witness ==
    /\ pc = "done"
    /\ FlatHour
    /\ arg.ctx.pace = "SKY_RUN"
    /\ res.calories = Num(263)
    /\ res.water = <<1, 2>>

\* C27: for every RouteStats of a non-empty track (totalDistance = 0
\* included), every profile and every duration >= 0 the calories are a
\* finite integer >= 0 and the water is a finite number >= 0.
C27_BioMetricsFinite ==
    pc = "done" =>
        /\ IsFinite(res.calories) /\ IsInteger(res.calories) /\ RGe(res.calories, Zero)
        /\ IsFinite(res.water) /\ RGe(res.water, Zero)

\* computed: an hour on a track that climbs on the spot, with infinite
\* calories
C27_Witness ==
    /\ pc = "done"
    /\ Len(arg.ctx.stats.points) >= 2
    /\ arg.ctx.stats.totalDistance = Zero
    /\ RGt(arg.ctx.stats.elevationGain, Zero)
    /\ arg.durationMinutes = 60
    /\ res.calories = Infinity

----------------------------------------------------------------------------
(* The loading flag of the forecast (Spec).                                *)

\* C28: weatherLoading is true whenever at least one weather request is in
\* flight and false only when none is; when two requests overlap, the
\* completion of the earlier one does not clear the flag while the later
\* one is outstanding.
C28_LoadingWhileInFlight == weatherLoading <=> (pending # <<>>)

\* an earlier request has settled and cleared the flag while the request
\* issued last is still in flight
C28_Witness ==
    /\ Len(pending) = 1
    /\ latest.request = Some(pending[1])
    /\ latest.status = "pending"
    /\ ~weatherLoading

----------------------------------------------------------------------------
(* The range of the aggregate (SpecAgg).                                   *)

\* the smallest and the largest of a non-empty list of integers
Smallest(q) == CHOOSE x \in { q[i] : i \in DOMAIN q } : \A i \in DOMAIN q : x <= q[i]
Largest(q) == CHOOSE x \in { q[i] : i \in DOMAIN q } : \A i \in DOMAIN q : x >= q[i]

\* C29: for every non-empty list of non-negative integer estimates the
\* value of calculateSmartAggregate is a finite integer between the
\* smallest and the largest estimate (inclusive), also when the median is
\* 0, and the list passed in is neither reordered nor modified.
C29_AggregateInRange ==
    /\ []((pc = "done" /\ Len(arg) > 0) =>
            /\ IsFinite(res.val) /\ IsInteger(res.val)
            /\ Smallest(Minutes(arg)) <= res.val[1]
            /\ res.val[1] <= Largest(Minutes(arg)))
    /\ [][arg' = arg]_vars

\* aggregated: an unsorted list whose median is 0 and whose mean is not
C29_Witness ==
    /\ pc = "done"
    /\ Minutes(arg) = <<3, 0, 0, 2, 0>>
    /\ res.type = "MEDIAN"
    /\ res.val = Zero

----------------------------------------------------------------------------
(* Fitness and the estimates (SpecEst).                                    *)

\* the fitness tiers from the lowest to the highest
Tiers == << "SEDENTARY", "BEGINNER", "AVERAGE", "ATHLETIC", "ENDURANCE", "ELITE",
            "SUPER_HUMAN" >>

TierRank(level) == CHOOSE i \in 1..7 : Tiers[i] = level

\* the estimates of the same route and profile one tier up
OneTierUp(ctx) == Estimators([ctx EXCEPT !.fitness = Tiers[TierRank(ctx.fitness) + 1]])

\* C30: for a fixed route, pace, pack weight and break setting the next
\* higher fitness tier never increases the timeMinutes of any of the five
\* estimators, and the combined speed of every profile is strictly
\* positive, between 2.5 * 0.6 * 0.85 and 7.0 * 2.4 km/h.
C30_FitnessMonotone ==
    pc = "done" =>
        /\ RGt(getCalculatedSpeed(arg), Zero)
        /\ RGe(getCalculatedSpeed(arg), <<51, 40>>)
        /\ RLe(getCalculatedSpeed(arg), <<84, 5>>)
        /\ arg.fitness # "SUPER_HUMAN" =>
              \E faster \in { OneTierUp(arg) } :
                  \A i \in 1..5 : RLe(faster[i].timeMinutes, res[i].timeMinutes)

\* estimated: a climb at Endurance fitness, which every estimator gives
\* less time at Elite fitness
C30_Witness ==
    /\ pc = "done"
    /\ arg.fitness = "ENDURANCE"
    /\ RGt(arg.stats.elevationGain, Zero)
    /\ \A i \in 1..5 : RLt(OneTierUp(arg)[i].timeMinutes, res[i].timeMinutes)

============================================================================
